---- MODULE Spec2Model ----
(***************************************************************************)
(* Combat AI of galaxy-war: the grid path planner (PathFinder), the squad  *)
(* coordinator (AICoordinator) and the per-agent awareness state (Enemy).  *)
(*                                                                         *)
(* World coordinates are kept in half units (an integer h stands for the   *)
(* world value h/2), so that a point inside a cell differs from the cell's *)
(* grid-to-world image.  Grid cells are pairs <<x, z>>; the string key     *)
(* `${x},${z}` of the code is injective on cells, so cells index the maps. *)
(***************************************************************************)
EXTENDS Integers, Sequences, FiniteSets, TLC

(***************************************************************************)
(* Bounds of the model                                                     *)
(***************************************************************************)
\* start and end points are drawn from the cells 0..MaxCell on both axes
MaxCell == 2
\* one far end cell <<FarCell, FarCell>>, searched from cell <<0, 0>>
FarCell == 15
\* agents in the roster
NumAgents == 3
\* decay timers pending at the same time
MaxTimers == 6
\* hit points of a new agent; a hit takes 1..MaxHealth of them
MaxHealth == 4
\* the clock advances in steps of ClockStep ms up to MaxNow
ClockStep == 1000
MaxNow == 8000
\* runs of the game loop
MaxFrames == 3
\* agents in the rosters of the game loop and of the alert operations
FewAgents == 2
\* the highest updateCounter an enemy is updated to
MaxCounter == 12
\* the highest wave a game is played to
MaxWave == 2

(***************************************************************************)
(* PathFinder: constants and coordinate mapping                            *)
(***************************************************************************)
gridSize == 1
arenaSize == 50
OpenSetLimit == 200

\* Math.floor(this.arenaSize / this.gridSize)
size == arenaSize \div gridSize

\* PathFinder.grid is null, or a size x size array of which `blocked` are
\* the cells holding true
NoGrid == [ ready |-> FALSE, blocked |-> {} ]
GridOf(cells) == [ ready |-> TRUE, blocked |-> cells ]

Min(a, b) == IF a < b THEN a ELSE b
Max(a, b) == IF a > b THEN a ELSE b
Abs(a) == IF a < 0 THEN -a ELSE a

Vector3(x, y, z) == [x |-> x, y |-> y, z |-> z]

\* pos is in half units: floor((pos.x + arenaSize / 2) / gridSize), clamped
worldToGrid(pos) ==
    LET x == (pos.x + arenaSize) \div (2 * gridSize)
        z == (pos.z + arenaSize) \div (2 * gridSize)
    IN  << Max(0, Min(size - 1, x)), Max(0, Min(size - 1, z)) >>

\* (point.x - size / 2) * gridSize, height 1; the result is in half units
gridToWorld(point) ==
    Vector3((2 * point[1] - size) * gridSize, 2, (2 * point[2] - size) * gridSize)

\* variant of isValidCell: bounds only, the cell's flag is not read
isValidCell_BoundsOnly(g, x, z) ==
    IF ~ g.ready THEN FALSE
    ELSE x >= 0 /\ x < size /\ z >= 0 /\ z < size

isValidCell(g, x, z) ==
    IF ~ g.ready THEN FALSE
    ELSE x >= 0 /\ x < size /\ z >= 0 /\ z < size /\ << x, z >> \notin g.blocked

heuristic(a, b) == Abs(a[1] - b[1]) + Abs(a[2] - b[2])

\* the cells initializeGrid samples (every 2nd cell on both axes) that lie in
\* the part of the arena the inputs are drawn from
SampledCells ==
    { c \in (0 .. MaxCell) \X (0 .. MaxCell) : c[1] % 2 = 0 /\ c[2] % 2 = 0 }

\* the level argument of initializeGrid: null, or an object whose
\* checkCollision reports `hits` among the sampled cells
NoLevel == [ present |-> FALSE, hits |-> {} ]
Levels == {NoLevel} \cup { [ present |-> TRUE, hits |-> h ] : h \in SUBSET SampledCells }

VARIABLES
    grid,        \* PathFinder.grid
    pc,          \* position of the findPath call
    start, end,  \* arguments of the call in progress
    openSet, cameFrom, gScore, fScore,   \* locals of aStar
    path, curr,  \* locals of the path reconstruction
    expansions,  \* loop iterations of aStar that expanded a node
    outcome,     \* which return statement was taken
    result,      \* value returned by findPath
    lastLevel    \* the level argument of the latest initializeGrid call

pathVars == << grid, pc, start, end, openSet, cameFrom, gScore, fScore,
               path, curr, expansions, outcome, result, lastLevel >>

VARIABLES
    now,                  \* Date.now()
    enemies,              \* Game.enemies: the roster, a sequence of Enemy
    formations,           \* AICoordinator.formations
    lastFormationUpdate,  \* AICoordinator.lastFormationUpdate
    playerThreatLevel,    \* AICoordinator.playerThreatLevel
    decayTimers           \* due times of the pending setTimeout callbacks

squadVars == << now, enemies, formations, lastFormationUpdate,
                playerThreatLevel, decayTimers >>

VARIABLES
    frameRequested,  \* a requestAnimationFrame callback of gameLoop is pending
    tickAt,          \* roster index the forEach of gameLoop stands at; 0 outside
    visited,         \* roster indices whose update was called in this run
    faulted,         \* roster indices whose update raised an exception in this run
    frames           \* runs of gameLoop so far

VARIABLES
    animationId,           \* Game.animationId is set: the loop is scheduled
    gameRunning,           \* Game.gameRunning
    currentWave,           \* Game.currentWave
    betweenWaves,          \* Game.betweenWaves
    waveTransitionTimer,   \* Game.waveTransitionTimer
    enemiesInCurrentWave,  \* Game.enemiesInCurrentWave
    gameStartTime,         \* Game.gameStartTime
    spawning               \* the spawnWave calls suspended at their await, each
                           \* with its wave number and its caller

waveVars == << animationId, gameRunning, currentWave, betweenWaves,
               waveTransitionTimer, enemiesInCurrentWave, gameStartTime, spawning >>

loopVars == << frameRequested, tickAt, visited, faulted, frames, waveVars >>

vars == << pathVars, squadVars, loopVars >>

None == "none"
EmptyMap == << >>

(***************************************************************************)
(* PathFinder: inputs                                                      *)
(***************************************************************************)
Region == (0 .. MaxCell) \X (0 .. MaxCell)

\* half-unit coordinates: one value below the arena, then the low corner and
\* the middle of every cell 0..MaxCell
Coords == (0 - arenaSize - 1) .. (2 * MaxCell + 1 - arenaSize)

StartPoints == { Vector3(2 * c[1] - arenaSize, 0, 2 * c[2] - arenaSize) : c \in Region }
EndPoints == { Vector3(x, y, z) : x \in Coords, y \in {0, 2}, z \in Coords }

OriginPoint == Vector3(0 - arenaSize, 0, 0 - arenaSize)
FarPoint == Vector3(2 * FarCell + 1 - arenaSize, 0, 2 * FarCell + 1 - arenaSize)

CallInputs == (StartPoints \X EndPoints) \cup { << OriginPoint, FarPoint >> }

(***************************************************************************)
(* PathFinder.aStar                                                        *)
(***************************************************************************)
\* gScore.get(key) || 0
GetOrZero(m, k) == IF k \in DOMAIN m THEN m[k] ELSE 0

\* (m.get(key) || Infinity) is finite: the key is present and its value is not 0
Finite(m, k) == k \in DOMAIN m /\ m[k] # 0

\* t < (m.get(key) || Infinity)
LessThanOrInfinity(t, m, k) == IF Finite(m, k) THEN t < m[k] ELSE TRUE

\* the comparator of openSet.sort is negative:
\* (fScore.get(a) || Infinity) - (fScore.get(b) || Infinity) < 0
\* (Infinity - Infinity is NaN, which sort treats as 0)
Before(f, a, b) ==
    /\ Finite(f, a)
    /\ (Finite(f, b) => f[a] < f[b])

\* the elements of s whose score is k, in the order they have in s
WithScore(f, s, k) == SelectSeq(s, LAMBDA x : Finite(f, x) /\ f[x] = k)

\* the elements of s with the scores of ks, ascending by score
RECURSIVE AscendingByScore(_, _, _)
AscendingByScore(f, s, ks) ==
    IF ks = {} THEN << >>
    ELSE LET k == CHOOSE m \in ks : \A n \in ks : m <= n
         IN  WithScore(f, s, k) \o AscendingByScore(f, s, ks \ {k})

\* Array.prototype.sort with that comparator.  The comparator orders the
\* elements by score, a missing or zero score counting as Infinity, and the
\* sort is stable: elements that compare equal keep their order.
SortByFScore(f, s) ==
    AscendingByScore(f, s, { f[s[i]] : i \in { j \in 1 .. Len(s) : Finite(f, s[j]) } })
        \o SelectSeq(s, LAMBDA x : ~ Finite(f, x))

InSeq(x, s) == \E i \in 1 .. Len(s) : s[i] = x

\* variant of neighborsOf: the third neighbor lies diagonally
neighborsOf_Diagonal(current) ==
    << << current[1] + 1, current[2] >>,
       << current[1] - 1, current[2] >>,
       << current[1] + 1, current[2] + 1 >>,
       << current[1], current[2] - 1 >> >>

\* the neighbors array of aStar
neighborsOf(current) ==
    << << current[1] + 1, current[2] >>,
       << current[1] - 1, current[2] >>,
       << current[1], current[2] + 1 >>,
       << current[1], current[2] - 1 >> >>

\* body of the for loop over the neighbors; st holds openSet and the maps
RelaxNeighbor(g, st, current, neighbor, endGrid) ==
    IF ~ isValidCell(g, neighbor[1], neighbor[2]) THEN st
    ELSE LET tentativeGScore == GetOrZero(st.gScore, current) + 1
         IN  IF LessThanOrInfinity(tentativeGScore, st.gScore, neighbor)
             THEN [ cameFrom |-> (neighbor :> current) @@ st.cameFrom,
                    gScore   |-> (neighbor :> tentativeGScore) @@ st.gScore,
                    fScore   |-> (neighbor :> tentativeGScore + heuristic(neighbor, endGrid))
                                     @@ st.fScore,
                    openSet  |-> IF InSeq(neighbor, st.openSet) THEN st.openSet
                                 ELSE Append(st.openSet, neighbor) ]
             ELSE st

RECURSIVE RelaxAll(_, _, _, _, _)
RelaxAll(g, st, current, ns, endGrid) ==
    IF ns = << >> THEN st
    ELSE RelaxAll(g, RelaxNeighbor(g, st, current, Head(ns), endGrid),
                  current, Tail(ns), endGrid)

\* the break of the search loop
SearchLimitReached(open) == Len(open) > OpenSetLimit

\* path.map(point => this.gridToWorld(point))
MapGridToWorld(p) == [ i \in 1 .. Len(p) |-> gridToWorld(p[i]) ]

\* no cell occurs twice in p
NoRevisit(p) == Cardinality({ p[i] : i \in 1 .. Len(p) }) = Len(p)

ClearLocals ==
    /\ openSet' = << >>
    /\ cameFrom' = EmptyMap
    /\ gScore' = EmptyMap
    /\ fScore' = EmptyMap
    /\ path' = << >>
    /\ curr' = None
    /\ expansions' = 0

(***************************************************************************)
(* PathFinder: operations                                                  *)
(***************************************************************************)
InitPath ==
    /\ grid = NoGrid
    /\ pc = "idle"
    /\ start = None
    /\ end = None
    /\ openSet = << >>
    /\ cameFrom = EmptyMap
    /\ gScore = EmptyMap
    /\ fScore = EmptyMap
    /\ path = << >>
    /\ curr = None
    /\ expansions = 0
    /\ outcome = None
    /\ result = << >>
    /\ lastLevel = None

\* initializeGrid(level): a null level leaves the grid as it is
initializeGrid ==
    /\ pc = "idle"
    /\ \E level \in Levels :
         /\ grid' = IF ~ level.present THEN grid ELSE GridOf(level.hits)
         /\ lastLevel' = IF level.present THEN "object" ELSE "null"
    /\ UNCHANGED << pc, start, end, openSet, cameFrom, gScore, fScore,
                    path, curr, expansions, outcome, result >>

\* findPath(start, end) up to the call of aStar
findPath ==
    /\ pc = "idle"
    /\ \E in \in CallInputs :
         LET s == in[1]
             e == in[2]
             startGrid == worldToGrid(s)
             endGrid == worldToGrid(e)
         IN  /\ start' = s
             /\ end' = e
             /\ IF ~ grid.ready
                THEN /\ pc' = "done"
                     /\ outcome' = "uninitialized"
                     /\ result' = << e >>
                     /\ ClearLocals
                ELSE IF \/ ~ isValidCell(grid, startGrid[1], startGrid[2])
                        \/ ~ isValidCell(grid, endGrid[1], endGrid[2])
                THEN /\ pc' = "done"
                     /\ outcome' = "invalid"
                     /\ result' = << e >>
                     /\ ClearLocals
                ELSE /\ pc' = "search"
                     /\ outcome' = None
                     /\ result' = << >>
                     /\ openSet' = << startGrid >>
                     /\ cameFrom' = EmptyMap
                     /\ gScore' = (startGrid :> 0)
                     /\ fScore' = (startGrid :> heuristic(startGrid, endGrid))
                     /\ path' = << >>
                     /\ curr' = None
                     /\ expansions' = 0
    /\ UNCHANGED << grid, lastLevel, lastLevel >>

\* one iteration of the while loop of aStar; when the loop ends without a
\* path, the return of [end] and its mapping back to world coordinates
aStarStep ==
    /\ pc = "search"
    /\ LET endGrid == worldToGrid(end)
           sorted == SortByFScore(fScore, openSet)
           current == Head(sorted)
           rest == Tail(sorted)
       IN  IF current = endGrid
           THEN /\ pc' = "reconstruct"
                /\ path' = << current >>
                /\ curr' = current
                /\ openSet' = rest
                /\ UNCHANGED << cameFrom, gScore, fScore, expansions, outcome, result >>
           ELSE LET st == RelaxAll(grid,
                                   [ cameFrom |-> cameFrom, gScore |-> gScore,
                                     fScore |-> fScore, openSet |-> rest ],
                                   current, neighborsOf(current), endGrid)
                IN  /\ cameFrom' = st.cameFrom
                    /\ gScore' = st.gScore
                    /\ fScore' = st.fScore
                    /\ openSet' = st.openSet
                    /\ expansions' = expansions + 1
                    /\ IF SearchLimitReached(st.openSet) \/ st.openSet = << >>
                       THEN /\ pc' = "done"
                            /\ outcome' = "fallback"
                            /\ result' = MapGridToWorld(<< endGrid >>)
                       ELSE UNCHANGED << pc, outcome, result >>
                    /\ UNCHANGED << path, curr >>
    /\ UNCHANGED << grid, lastLevel, start, end >>

\* variant of reconstructStep: push instead of unshift
reconstructStep_Push ==
    /\ pc = "reconstruct"
    /\ curr \in DOMAIN cameFrom
    /\ NoRevisit(path)
    /\ curr' = cameFrom[curr]
    /\ path' = Append(path, cameFrom[curr])
    /\ UNCHANGED << grid, lastLevel, pc, start, end, openSet, cameFrom, gScore, fScore,
                    expansions, outcome, result >>

\* one iteration of the reconstruction loop.  The walk is deterministic over
\* a map that no longer changes, so once it stands on a cell for the second
\* time it never leaves the loop; the model follows it up to that point.
reconstructStep ==
    /\ pc = "reconstruct"
    /\ curr \in DOMAIN cameFrom
    /\ NoRevisit(path)
    /\ curr' = cameFrom[curr]
    /\ path' = << cameFrom[curr] >> \o path
    /\ UNCHANGED << grid, lastLevel, pc, start, end, openSet, cameFrom, gScore, fScore,
                    expansions, outcome, result >>

\* variant of returnPath: the start cell is dropped from the returned path
returnPath_WithoutStart ==
    /\ pc = "reconstruct"
    /\ curr \notin DOMAIN cameFrom
    /\ pc' = "done"
    /\ outcome' = "path"
    /\ result' = MapGridToWorld(Tail(path))
    /\ UNCHANGED << grid, lastLevel, start, end, openSet, cameFrom, gScore, fScore,
                    path, curr, expansions >>

\* the reconstruction loop ends; aStar returns path, findPath maps it
returnPath ==
    /\ pc = "reconstruct"
    /\ curr \notin DOMAIN cameFrom
    /\ pc' = "done"
    /\ outcome' = "path"
    /\ result' = MapGridToWorld(path)
    /\ UNCHANGED << grid, lastLevel, start, end, openSet, cameFrom, gScore, fScore,
                    path, curr, expansions >>

\* the caller takes the result; the locals of the call are gone
findPathReturn ==
    /\ pc = "done"
    /\ pc' = "idle"
    /\ start' = None
    /\ end' = None
    /\ outcome' = None
    /\ result' = << >>
    /\ ClearLocals
    /\ UNCHANGED << grid, lastLevel, lastLevel >>

NextPath ==
    \/ initializeGrid /\ UNCHANGED << squadVars, loopVars >>
    \/ findPath /\ UNCHANGED << squadVars, loopVars >>
    \/ aStarStep /\ UNCHANGED << squadVars, loopVars >>
    \/ reconstructStep /\ UNCHANGED << squadVars, loopVars >>
    \/ returnPath /\ UNCHANGED << squadVars, loopVars >>
    \/ findPathReturn /\ UNCHANGED << squadVars, loopVars >>


(***************************************************************************)
(* Enemy and AICoordinator: values                                         *)
(***************************************************************************)
FormationInterval == 2000
DecayDelay == 5000
ClusterDistance == 12
SightGrace == 3000
AlertRadius == 15
CoverSearchRadius == 8
CoverAngles == 8

\* a JavaScript number, which may also be undefined or NaN
Num(n) == [ t |-> "number", v |-> n ]
Undefined == [ t |-> "undefined", v |-> 0 ]
NaN == [ t |-> "NaN", v |-> 0 ]
IsNumber(a) == a.t = "number"

\* Math.min(100, a + d): undefined + d and NaN + d are NaN, and so is the min
MinHundredPlus(a, d) == IF IsNumber(a) THEN Num(Min(100, a.v + d)) ELSE NaN

\* Math.max(0, a - d)
MaxZeroMinus(a, d) == IF IsNumber(a) THEN Num(Max(0, a.v - d)) ELSE NaN

\* a > b: false as soon as one side is undefined or NaN
GreaterThan(a, b) == IsNumber(a) /\ IsNumber(b) /\ a.v > b.v

Null == "null"
NoPosition == << >>

\* `enemy_${random}` and `formation_${index}`
EnemyIds == << "enemy_a", "enemy_b", "enemy_c", "enemy_d", "enemy_e", "enemy_f",
              "enemy_g", "enemy_h", "enemy_i", "enemy_j", "enemy_k", "enemy_l",
              "enemy_m", "enemy_n", "enemy_o", "enemy_p" >>
FormationIds == << "formation_0", "formation_1", "formation_2", "formation_3",
                   "formation_4", "formation_5" >>
FormationId(index) == FormationIds[index + 1]

\* aiState.alertLevel of the enemies handed to the coordinator, numbers in
\* 0..100 as the AIState interface declares them
AlertLevels == { Num(0), Num(40), Num(80) }

\* Math.floor(Math.random() * 20), the initial updateCounter: the values from
\* which the first update reaches a multiple of 10, and does not
CounterOffsets == { 0, 9 }
\* the initial updateCounter where Enemy.update, its only reader, is not run
NoOffset == { 0 }

\* world x = 0, 10, 20 on one line: neighbours are within the cluster
\* distance of each other, the two outer points are not
SpawnPoints == { Vector3(0, 0, 0), Vector3(20, 0, 0), Vector3(40, 0, 0) }
PlayerPoints == { Vector3(10, 0, 10) }
\* positions reported with an alert: world x = 15 and 15.5, at distance 15 and
\* just above 15 from the first spawn point
AlertPoints == { Vector3(30, 0, 0), Vector3(31, 0, 0) }
ThreatActions == { "kill", "damage", "telekinesis", "headshot" }

\* a.distanceTo(b) <= d, on half-unit coordinates
WithinDistance(a, b, d) ==
    (a.x - b.x) * (a.x - b.x) + (a.y - b.y) * (a.y - b.y) + (a.z - b.z) * (a.z - b.z)
        <= (2 * d) * (2 * d)

\* new Enemy(position, ...): aiState is built without an alertLevel
NewEnemy(id, position, updateCounter) ==
    [ id |-> id,
      position |-> position,
      updateCounter |-> updateCounter,
      health |-> MaxHealth,
      isThrown |-> FALSE,
      alertLevel |-> Undefined,
      lastKnownPlayerPosition |-> NoPosition,
      alertedBy |-> Null,
      lastDamageTime |-> 0,
      lastPlayerSightTime |-> 0,
      formationRole |-> Null,
      formationId |-> Null,
      aiFormationRole |-> Null,
      formationTarget |-> NoPosition,
      type |-> "normal",
      coverPosition |-> NoPosition,
      atCover |-> FALSE,
      evasionCooldown |-> 0,
      explosionTriggered |-> FALSE, lastStep |-> "none",
      pathWaypoints |-> << >>, currentWaypointIndex |-> 0, lastPathUpdate |-> 0,
      currentTarget |-> NoPosition, replanned |-> FALSE,
      moveTimer |-> 0, flyTarget |-> "cruise", moveTarget |-> NoPosition,
      isLevitating |-> FALSE,
      explosionEffects |-> 0 ]

\* an enemy whose aiState carries the given alertLevel
EnemyWith(id, position, level) ==
    [ NewEnemy(id, position, 0) EXCEPT !.alertLevel = level ]

isAlive(e) == e.health > 0
isBeingThrown(e) == e.isThrown

\* the enemy after enemy.receiveAlert(alerterId, playerPosition)
Alerted(e, alerterId, playerPosition) ==
    [ e EXCEPT !.alertLevel = MinHundredPlus(e.alertLevel, 30),
               !.lastKnownPlayerPosition = << playerPosition >>,
               !.alertedBy = alerterId,
               !.moveTimer = 0 ]

\* variant of alertNearby: the dead are alerted too
alertNearby_Dead(es, alerterId, position, list) ==
    [ n \in 1 .. Len(es) |->
        IF /\ n \in list
           /\ es[n].id # alerterId
           /\ WithinDistance(es[n].position, position, AlertRadius)
        THEN Alerted(es[n], alerterId, position)
        ELSE es[n] ]

\* the roster after AICoordinator.alertNearbyEnemies(alerterId, position,
\* enemies); list holds the roster indices of the enemies passed in.  Each
\* turn of the forEach touches the enemy it visits only.
alertNearby(es, alerterId, position, list) ==
    [ n \in 1 .. Len(es) |->
        IF /\ n \in list
           /\ es[n].id # alerterId
           /\ isAlive(es[n])
           /\ WithinDistance(es[n].position, position, AlertRadius)
        THEN Alerted(es[n], alerterId, position)
        ELSE es[n] ]

(***************************************************************************)
(* AICoordinator.updateFormations and its helpers; enemies are named by    *)
(* their index in the roster                                               *)
(***************************************************************************)
\* enemies.filter(e => e.isAlive() && !e.isBeingThrown()), in roster order
RECURSIVE AliveFrom(_, _)
AliveFrom(es, i) ==
    IF i > Len(es) THEN << >>
    ELSE IF isAlive(es[i]) /\ ~ isBeingThrown(es[i])
         THEN << i >> \o AliveFrom(es, i + 1)
         ELSE AliveFrom(es, i + 1)

\* variant of Absorb: an absorbed enemy is not marked as visited
RECURSIVE Absorb_Unmarked(_, _, _, _, _, _)
Absorb_Unmarked(es, list, seed, maxDistance, st, j) ==
    IF j > Len(list) THEN st
    ELSE LET other == list[j]
         IN  IF /\ es[other].id \notin st.visited
                /\ WithinDistance(es[seed].position, es[other].position, maxDistance)
             THEN Absorb_Unmarked(es, list, seed, maxDistance,
                                  [ cluster |-> Append(st.cluster, other),
                                    visited |-> st.visited ], j + 1)
             ELSE Absorb_Unmarked(es, list, seed, maxDistance, st, j + 1)

\* the inner forEach of clusterEnemies: st = [cluster, visited]
RECURSIVE Absorb(_, _, _, _, _, _)
Absorb(es, list, seed, maxDistance, st, j) ==
    IF j > Len(list) THEN st
    ELSE LET other == list[j]
         IN  IF /\ es[other].id \notin st.visited
                /\ WithinDistance(es[seed].position, es[other].position, maxDistance)
             THEN Absorb(es, list, seed, maxDistance,
                         [ cluster |-> Append(st.cluster, other),
                           visited |-> st.visited \cup { es[other].id } ], j + 1)
             ELSE Absorb(es, list, seed, maxDistance, st, j + 1)

\* the outer forEach of clusterEnemies: acc = [clusters, visited]
RECURSIVE ClusterFrom(_, _, _, _, _)
ClusterFrom(es, list, maxDistance, acc, i) ==
    IF i > Len(list) THEN acc.clusters
    ELSE IF es[list[i]].id \in acc.visited
         THEN ClusterFrom(es, list, maxDistance, acc, i + 1)
         ELSE LET st == Absorb(es, list, list[i], maxDistance,
                               [ cluster |-> << list[i] >>,
                                 visited |-> acc.visited \cup { es[list[i]].id } ], 1)
              IN  ClusterFrom(es, list, maxDistance,
                              [ clusters |-> Append(acc.clusters, st.cluster),
                                visited |-> st.visited ], i + 1)

\* variant of clusterEnemies: enemies up to twice maxDistance from the seed
\* are absorbed
clusterEnemies_Wide(es, list, maxDistance) ==
    ClusterFrom(es, list, 2 * maxDistance, [ clusters |-> << >>, visited |-> {} ], 1)

\* AICoordinator.clusterEnemies(enemies, maxDistance)
clusterEnemies(es, list, maxDistance) ==
    ClusterFrom(es, list, maxDistance, [ clusters |-> << >>, visited |-> {} ], 1)

\* variant of ReduceLeader: the comparison is turned round
RECURSIVE ReduceLeader_Lowest(_, _, _, _)
ReduceLeader_Lowest(es, group, prev, k) ==
    IF k > Len(group) THEN prev
    ELSE ReduceLeader_Lowest(es, group,
                             IF GreaterThan(es[group[k]].alertLevel, es[prev].alertLevel)
                             THEN prev ELSE group[k],
                             k + 1)

\* group.reduce((prev, current) =>
\*     prev.alertLevel > current.alertLevel ? prev : current)
RECURSIVE ReduceLeader(_, _, _, _)
ReduceLeader(es, group, prev, k) ==
    IF k > Len(group) THEN prev
    ELSE ReduceLeader(es, group,
                      IF GreaterThan(es[prev].alertLevel, es[group[k]].alertLevel)
                      THEN prev ELSE group[k],
                      k + 1)

LeaderOf(es, group) == ReduceLeader(es, group, group[1], 2)

\* variant of selectFormationType: the size of the group is looked at first
selectFormationType_SizeFirst(groupSize, threatLevel) ==
    IF groupSize >= 4 THEN "surround"
    ELSE IF groupSize = 3 THEN "pincer"
    ELSE IF threatLevel > 70 THEN "scatter"
    ELSE "line"

selectFormationType(groupSize, threatLevel) ==
    IF threatLevel > 70 THEN "scatter"
    ELSE IF groupSize >= 4 THEN "surround"
    ELSE IF groupSize = 3 THEN "pincer"
    ELSE "line"

\* the role given to the member at index i (from 0) of a group
RoleAt(es, group, leader, i) ==
    IF es[group[i + 1]].id = es[leader].id THEN "leader"
    ELSE IF i < 2 THEN "flanker"
    ELSE "support"

\* a group gets a formation when it has at least two members
FormsGroup(group) == Len(group) >= 2

\* Enemy.setFormationRole(role, formationId)
setFormationRole(e, role, formationId) ==
    [ e EXCEPT !.formationRole = role,
               !.formationId = formationId,
               !.aiFormationRole = role ]

\* this.formations after the forEach over the groups
FormationsOf(es, groups, playerPosition, threatLevel, time) ==
    LET formed == { k \in 1 .. Len(groups) : FormsGroup(groups[k]) }
    IN  [ fid \in { FormationId(k - 1) : k \in formed } |->
            LET k == CHOOSE c \in formed : FormationId(c - 1) = fid
                group == groups[k]
            IN  [ id |-> fid,
                  leader |-> es[LeaderOf(es, group)].id,
                  members |-> [ m \in 1 .. Len(group) |-> es[group[m]].id ],
                  targetPosition |-> playerPosition,
                  formationType |-> selectFormationType(Len(group), threatLevel),
                  lastUpdate |-> time ] ]

\* the roster after the role assignments of the forEach over the groups
AssignRoles(es, groups) ==
    [ n \in 1 .. Len(es) |->
        IF \E k \in 1 .. Len(groups) :
              FormsGroup(groups[k]) /\ InSeq(n, groups[k])
        THEN LET k == CHOOSE c \in 1 .. Len(groups) :
                          FormsGroup(groups[c]) /\ InSeq(n, groups[c])
                 group == groups[k]
                 i == (CHOOSE m \in 1 .. Len(group) : group[m] = n) - 1
             IN  setFormationRole(es[n], RoleAt(es, group, LeaderOf(es, group), i),
                                  FormationId(k - 1))
        ELSE es[n] ]

(***************************************************************************)
(* Operations of the game loop, Enemy and AICoordinator                    *)
(***************************************************************************)
InitSquad ==
    /\ now = FormationInterval
    /\ enemies = << >>
    /\ formations = EmptyMap
    /\ lastFormationUpdate = 0
    /\ playerThreatLevel = 0
    /\ decayTimers = << >>

InitLoop ==
    /\ frameRequested = TRUE
    /\ tickAt = 0
    /\ visited = {}
    /\ faulted = {}
    /\ frames = 0

\* the fields of Game as their initializers leave them
InitWave ==
    /\ animationId = FALSE
    /\ gameRunning = FALSE
    /\ currentWave = 1
    /\ betweenWaves = FALSE
    /\ waveTransitionTimer = 0
    /\ enemiesInCurrentWave = 0
    /\ gameStartTime = 0
    /\ spawning = << >>

Init == InitPath /\ InitSquad /\ InitLoop /\ InitWave

\* time passes
Tick ==
    /\ now + ClockStep <= MaxNow
    /\ now' = now + ClockStep
    /\ UNCHANGED << enemies, formations, lastFormationUpdate,
                    playerThreatLevel, decayTimers >>

\* Game.spawnWave: a new Enemy joins the roster, while it holds fewer than cap
spawnEnemy(cap, offsets) ==
    /\ Len(enemies) < cap
    /\ \E position \in SpawnPoints, offset \in offsets :
         enemies' = Append(enemies,
                           NewEnemy(EnemyIds[Len(enemies) + 1], position, offset))
    /\ UNCHANGED << now, formations, lastFormationUpdate, playerThreatLevel, decayTimers >>

\* the roster handed to the coordinator gains an enemy
addEnemy(cap, levels) ==
    /\ Len(enemies) < cap
    /\ \E position \in SpawnPoints, level \in levels :
         enemies' = Append(enemies,
                           EnemyWith(EnemyIds[Len(enemies) + 1], position, level))
    /\ UNCHANGED << now, formations, lastFormationUpdate, playerThreatLevel, decayTimers >>

\* Enemy.levitate()
levitate ==
    /\ \E n \in 1 .. Len(enemies) :
         /\ ~ enemies[n].isLevitating
         /\ enemies' = [ enemies EXCEPT ![n].isLevitating = TRUE,
                                        ![n].isThrown = FALSE ]
    /\ UNCHANGED << now, formations, lastFormationUpdate, playerThreatLevel, decayTimers >>

\* Enemy.throw(direction)
throw ==
    /\ \E n \in 1 .. Len(enemies) :
         /\ ~ enemies[n].isThrown
         /\ enemies' = [ enemies EXCEPT ![n].isThrown = TRUE,
                                        ![n].isLevitating = FALSE ]
    /\ UNCHANGED << now, formations, lastFormationUpdate, playerThreatLevel, decayTimers >>

\* Enemy.handleThrowPhysics when the thrown enemy reaches the ground
land ==
    /\ \E n \in 1 .. Len(enemies) :
         /\ enemies[n].isThrown
         /\ enemies' = [ enemies EXCEPT ![n].isThrown = FALSE ]
    /\ UNCHANGED << now, formations, lastFormationUpdate, playerThreatLevel, decayTimers >>

\* variant of ThreatDelta: the deltas of kill and damage change places
ThreatDelta_Swapped(action) ==
    CASE action = "kill" -> 5
      [] action = "damage" -> 15
      [] action = "telekinesis" -> 10
      [] action = "headshot" -> 20

\* the amount the switch of updatePlayerThreatLevel(action) adds
ThreatDelta(action) ==
    CASE action = "kill" -> 15
      [] action = "damage" -> 5
      [] action = "telekinesis" -> 10
      [] action = "headshot" -> 20

\* variant of RaisedThreat: the sum is not clamped
RaisedThreat_Unclamped(level, action) == level + ThreatDelta(action)

\* the threat level after updatePlayerThreatLevel(action)
RaisedThreat(level, action) == Min(100, level + ThreatDelta(action))

\* the body of the decay callback
DecayedThreat(level) == Max(0, level - 5)

\* variant of Scheduled: the new timer replaces the pending ones
Scheduled_Coalesced(timers, time) == << time + DecayDelay >>

\* the pending timers after setTimeout(callback, 5000) at the given time
Scheduled(timers, time) == Append(timers, time + DecayDelay)

\* AICoordinator.updatePlayerThreatLevel(action)
updatePlayerThreatLevelOf(action) ==
    /\ Len(decayTimers) < MaxTimers
    /\ playerThreatLevel' = RaisedThreat(playerThreatLevel, action)
    /\ decayTimers' = Scheduled(decayTimers, now)
    /\ UNCHANGED << now, enemies, formations, lastFormationUpdate >>

updatePlayerThreatLevel ==
    \E action \in ThreatActions : updatePlayerThreatLevelOf(action)

\* the callback of the oldest pending timer runs once its delay has passed
decayTimerFires ==
    /\ decayTimers # << >>
    /\ Head(decayTimers) <= now
    /\ playerThreatLevel' = DecayedThreat(playerThreatLevel)
    /\ decayTimers' = Tail(decayTimers)
    /\ UNCHANGED << now, enemies, formations, lastFormationUpdate >>

\* The points handed out by getFormationPosition lie on a circle around a
\* centre.  A point is kept as its centre, its radius and its angle, the angle
\* as turn[1] steps of a full circle cut in turn[2] equal steps, counted from
\* the x axis or from the named base direction.

\* formation.members.indexOf(enemyId), counted from 0; -1 when absent
IndexOf(members, id) ==
    IF \E i \in 1 .. Len(members) : members[i] = id
    THEN (CHOOSE i \in 1 .. Len(members) :
            /\ members[i] = id
            /\ \A j \in 1 .. i - 1 : members[j] # id) - 1
    ELSE -1

\* variant of getSurroundPosition: the members share half a circle
getSurroundPosition_HalfCircle(enemyId, formation, playerPos, distance) ==
    [ center |-> playerPos, base |-> "x", distance |-> distance,
      turn |-> << IndexOf(formation.members, enemyId), 2 * Len(formation.members) >> ]

\* getSurroundPosition: angle = memberIndex * (2 * PI / totalMembers)
getSurroundPosition(enemyId, formation, playerPos, distance) ==
    [ center |-> playerPos, base |-> "x", distance |-> distance,
      turn |-> << IndexOf(formation.members, enemyId), Len(formation.members) >> ]

\* getPincerPosition: PI / 3 for a flanker, -PI / 3 otherwise
getPincerPosition(role, playerPos, distance) ==
    [ center |-> playerPos, base |-> "x", distance |-> distance,
      turn |-> << IF role = "flanker" THEN 1 ELSE -1, 6 >> ]

\* getLinePosition: the direction from the enemy to the player, turned by
\* PI / 6 for a flanker
getLinePosition(role, playerPos, distance) ==
    [ center |-> playerPos, base |-> "toPlayer", distance |-> distance,
      turn |-> << IF role = "flanker" THEN 1 ELSE 0, 12 >> ]

\* getScatterPosition: the direction away from the player, turned by a random
\* angle within 45 degrees, at the distance plus a random stretch
getScatterPosition(playerPos, distance, eighth, stretch) ==
    [ center |-> playerPos, base |-> "fromPlayer", distance |-> distance + stretch,
      turn |-> << eighth, 8 >> ]

\* currentPos.clone()
Stay(currentPos) ==
    [ center |-> currentPos, base |-> "x", distance |-> 0, turn |-> << 0, 1 >> ]

\* the draws of 8 + Math.random() * 4
FormationDistances == { 8, 10 }

\* the point AICoordinator.getFormationPosition returns for enemy e
FormationPoint(fs, e, playerPos, distance, eighth, stretch) ==
    IF e.formationId \notin DOMAIN fs THEN Stay(e.position)
    ELSE LET formation == fs[e.formationId]
         IN  CASE formation.formationType = "surround" ->
                    getSurroundPosition(e.id, formation, playerPos, distance)
               [] formation.formationType = "pincer" ->
                    getPincerPosition(e.formationRole, playerPos, distance)
               [] formation.formationType = "line" ->
                    getLinePosition(e.formationRole, playerPos, distance)
               [] formation.formationType = "scatter" ->
                    getScatterPosition(playerPos, distance, eighth, stretch)
               [] OTHER -> Stay(e.position)

\* AICoordinator.getFormationPosition(enemyId, role, formationId, currentPos,
\* playerPos) as Enemy.update calls it for roster enemy n, which holds a role
\* and a formation id; the point returned is kept as formationTarget
getFormationPositionFor(n, playerPos, distance) ==
    /\ enemies[n].formationRole # Null
    /\ enemies[n].formationId # Null
    /\ \E eighth \in { -1, 1 }, stretch \in { 0, 4 } :
         enemies' = [ enemies EXCEPT
                        ![n].formationTarget =
                            << FormationPoint(formations, enemies[n], playerPos,
                                              distance, eighth, stretch) >> ]
    /\ UNCHANGED << now, formations, lastFormationUpdate, playerThreatLevel, decayTimers >>

getFormationPosition ==
    \E n \in 1 .. Len(enemies), playerPos \in PlayerPoints,
       distance \in FormationDistances :
        getFormationPositionFor(n, playerPos, distance)

(***************************************************************************)
(* Enemy: cover search and the tactics of the archetypes                   *)
(***************************************************************************)
\* the distances of the inner loop of findCoverPosition: 3, 5, 7
CoverRadii == [ i \in 1 .. ((CoverSearchRadius - 3) \div 2 + 1) |-> 3 + 2 * (i - 1) ]

\* the candidates in the order the two loops visit them, each as the index of
\* its angle in `angles` (from 0) and its distance
CoverCandidates ==
    [ k \in 1 .. CoverAngles * Len(CoverRadii) |->
        << (k - 1) \div Len(CoverRadii), CoverRadii[((k - 1) % Len(CoverRadii)) + 1] >> ]

\* candidatePos of candidate c around the given position
CoverPoint(position, c) ==
    [ center |-> position, base |-> "x", distance |-> c[2],
      turn |-> << c[1], CoverAngles >> ]

\* The level argument of the tactics: null, or an object whose checkCollision
\* reports the candidates of `blocked` as obstructed, the points one unit
\* from the candidates of `shelter` toward the player as obstructed, a point
\* of the sight line as obstructed when `wall` is set, the end of the direct
\* step as obstructed when `ahead` is set, and the ends of the deflected steps
\* of `sides` as obstructed.
NoOracle == [ present |-> FALSE, blocked |-> {}, shelter |-> {}, wall |-> FALSE,
              ahead |-> FALSE, sides |-> {} ]
OpenLevel == [ NoOracle EXCEPT !.present = TRUE ]

\* the candidates the levels tell apart: the first two of the first angle,
\* the first of the second angle and the last one
CoverSample == { 1, 2, Len(CoverRadii) + 1, Len(CoverCandidates) }

\* levels with up to two sheltered candidates, one of which may be obstructed
CoverLevels ==
    { NoOracle, OpenLevel }
    \cup { [ OpenLevel EXCEPT !.blocked = b, !.shelter = s ] :
             s \in { { i, j } : i, j \in CoverSample },
             b \in { {}, { 1 } } }

\* variant of FirstCover: a candidate counts as cover although it is obstructed
RECURSIVE FirstCover_Obstructed(_, _)
FirstCover_Obstructed(level, k) ==
    IF k > Len(CoverCandidates) THEN 0
    ELSE IF k \in level.shelter THEN k
    ELSE FirstCover_Obstructed(level, k + 1)

\* the two loops of findCoverPosition from candidate k on: the index of the
\* candidate returned, 0 when the loops end without one
RECURSIVE FirstCover(_, _)
FirstCover(level, k) ==
    IF k > Len(CoverCandidates) THEN 0
    ELSE IF k \notin level.blocked /\ k \in level.shelter THEN k
    ELSE FirstCover(level, k + 1)

\* Enemy.findCoverPosition(playerPosition, level)
findCoverPosition(position, level) ==
    IF ~ level.present THEN NoPosition
    ELSE LET k == FirstCover(level, 1)
         IN  IF k = 0 THEN NoPosition
             ELSE << CoverPoint(position, CoverCandidates[k]) >>

\* variant of canSeePlayer: the sight line is sampled without asking whether
\* the level has a checkCollision
canSeePlayer_Unguarded(level) == ~ level.wall

\* Enemy.canSeePlayer(playerPosition, level)
canSeePlayer(level) == ~ level.present \/ ~ level.wall

\* Enemy.performEvasiveManeuvers: a running cooldown is counted down by one,
\* otherwise a new one of 60 + Math.random() * 60 is drawn.  Cooldowns are
\* kept in halves.
performEvasiveManeuvers(e, draw) ==
    IF e.evasionCooldown > 0
    THEN [ e EXCEPT !.evasionCooldown = e.evasionCooldown - 2 ]
    ELSE [ e EXCEPT !.evasionCooldown = draw ]

\* ENEMY_CONFIGS[type].speed, in thousandths of a unit
Speed(type) ==
    CASE type = "normal" -> 30
      [] type = "scout" -> 50
      [] type = "heavy" -> 15
      [] type = "ranged" -> 20
      [] type = "exploder" -> 35
      [] type = "shielded" -> 18
      [] type = "drone" -> 40

\* the speedMultiplier arguments of the tactics, in tenths
Multipliers == { 8, 9, 10, 12, 14, 15, 18, 20 }

\* the length of the direct step of moveTowardsTarget, speed * speedMultiplier,
\* in units of 10^-9
DirectStride(type, multiplier) == Speed(type) * multiplier * 100000

\* the length of a deflected step, in units of 10^-9: handleObstacleAvoidance
\* is handed the direction that multiplyScalar has scaled in place to the
\* length of the direct step, and scales its rotated copy by
\* speed * speedMultiplier * 0.8
DeflectedStride(type, multiplier) ==
    (Speed(type) * multiplier) * (Speed(type) * multiplier) * 8

\* variant of Deflections: the right angles are tried before the second
\* diagonal
Deflections_RightAngleFirst == << "+45", "+90", "-45", "-90" >>

\* the headings handleObstacleAvoidance tries, in degrees about the y axis
Deflections == << "+45", "-45", "+90", "-90" >>

\* Enemy.handleObstacleAvoidance from deflection k on: the first deflected
\* step that ends unobstructed, "blocked" when there is none
RECURSIVE handleObstacleAvoidance(_, _)
handleObstacleAvoidance(level, k) ==
    IF k > Len(Deflections) THEN "blocked"
    ELSE IF k \notin level.sides THEN Deflections[k]
    ELSE handleObstacleAvoidance(level, k + 1)

\* the enemy after position.copy: atCover holds when a cover is cached and
\* position.distanceTo(coverPosition) < 2; reached tells whether the step
\* ends that close to the cover
Moved(e, reached) ==
    [ e EXCEPT !.atCover = reached /\ e.coverPosition # NoPosition ]

\* variant of moveTowardsTarget: the direct step is taken without asking
\* checkCollision
moveTowardsTarget_Unchecked(e, level, step) ==
    IF ~ step.apart THEN [ e EXCEPT !.lastStep = "none" ]
    ELSE [ Moved(e, step.reached) EXCEPT !.lastStep = "direct" ]

\* Enemy.moveTowardsTarget.  targetPosition is not kept: step.apart tells
\* whether the enemy is more than 1.5 units from it.  moveTimer is kept for
\* the archetype whose tactics read it, the drone (TimedMove).  lastStep names
\* the step whose end the position took.
moveTowardsTarget(e, level, step) ==
    IF ~ step.apart THEN [ e EXCEPT !.lastStep = "none" ]
    ELSE LET heading == IF level.present
                        THEN IF ~ level.ahead THEN "direct"
                             ELSE handleObstacleAvoidance(level, 1)
                        ELSE "direct"
         IN  IF heading = "blocked" THEN [ e EXCEPT !.lastStep = "blocked" ]
             ELSE [ Moved(e, step.reached) EXCEPT !.lastStep = heading ]

\* Enemy.updateHeavyBehavior
updateHeavyBehavior(e, distance, step, level) ==
    IF distance > 15 THEN moveTowardsTarget(e, level, step)
    ELSE IF 10 * e.health < 4 * MaxHealth
    THEN LET sought == IF e.coverPosition = NoPosition
                       THEN [ e EXCEPT !.coverPosition = findCoverPosition(e.position, level) ]
                       ELSE e
             stepped == moveTowardsTarget(sought, level, step)
         IN  IF stepped.coverPosition # NoPosition /\ stepped.atCover
             THEN [ stepped EXCEPT !.coverPosition = NoPosition, !.atCover = FALSE ]
             ELSE stepped
    ELSE moveTowardsTarget(e, level, step)

\* Enemy.updateRangedBehavior; optimalRange = 8 + threatLevel * 0.05, compared
\* in twentieths of a unit
updateRangedBehavior(e, distance, step, level, threatLevel, draw) ==
    LET hurt == 2 * e.health < MaxHealth
    IN  IF ~ canSeePlayer(level) \/ 20 * distance > 160 + threatLevel + 60
        THEN moveTowardsTarget(e, level, step)
        ELSE IF 20 * distance < 160 + threatLevel - 60 \/ hurt
        THEN LET sought == IF hurt /\ e.coverPosition = NoPosition
                           THEN [ e EXCEPT !.coverPosition = findCoverPosition(e.position, level) ]
                           ELSE e
             IN  IF sought.coverPosition # NoPosition /\ hurt
                 THEN moveTowardsTarget(sought, level, step)
                 ELSE moveTowardsTarget(performEvasiveManeuvers(sought, draw), level, step)
        ELSE IF e.evasionCooldown <= 0
             THEN moveTowardsTarget(performEvasiveManeuvers(e, draw), level, step)
             ELSE e

\* Enemy.updateScoutBehavior
updateScoutBehavior(e, distance, step, level, draw) ==
    IF distance > 12 THEN moveTowardsTarget(e, level, step)
    ELSE IF distance < 2 \/ (GreaterThan(e.alertLevel, Num(70)) /\ distance < 4)
    THEN moveTowardsTarget(performEvasiveManeuvers(e, draw), level, step)
    ELSE moveTowardsTarget(e, level, step)

\* variant of Exploded: the flag is not set
Exploded_Unflagged(e) ==
    IF e.explosionTriggered THEN e
    ELSE [ e EXCEPT !.explosionEffects = e.explosionEffects + 1, !.health = 0 ]

\* Enemy.explode(); explosionEffects counts the calls of createExplosionEffect
Exploded(e) ==
    IF e.explosionTriggered THEN e
    ELSE [ e EXCEPT !.explosionTriggered = TRUE,
                    !.explosionEffects = e.explosionEffects + 1,
                    !.health = 0 ]

ExplosionRadius == 5

\* Enemy.updateExploderBehavior
updateExploderBehavior(e, distance, step, level) ==
    IF (distance < ExplosionRadius \/ e.health <= 0) /\ ~ e.explosionTriggered
    THEN Exploded(moveTowardsTarget(e, level, step))
    ELSE moveTowardsTarget(e, level, step)

\* Enemy.moveTowardsTarget with its moveTimer: counted up, and back to 0 when
\* it passes 30
TimedMove(e, level, step) ==
    [ moveTowardsTarget(e, level, step)
        EXCEPT !.moveTimer = IF e.moveTimer + 1 > 30 THEN 0 ELSE e.moveTimer + 1 ]

\* Enemy.updateDroneBehavior; flyTarget names the altitude the tick ends
\* with: the sine of the clock, the player's height + 0.5, or 3 to 5 above it
updateDroneBehavior(e, distance, step, level) ==
    LET moved == IF distance > 4
                 THEN [ TimedMove(e, level, step) EXCEPT !.flyTarget = "cruise" ]
                 ELSE IF e.moveTimer % 120 < 60
                 THEN [ TimedMove(e, level, step) EXCEPT !.flyTarget = "dive" ]
                 ELSE [ TimedMove(e, level, step) EXCEPT !.flyTarget = "climb" ]
    IN  [ moved EXCEPT !.moveTimer = @ + 1 ]

\* the player's distance from the enemy, as the tactics see it
TacticDistances == { 1, 9, 16 }

\* the switch of Enemy.updateByType
ByType(e, distance, step, level, threatLevel, draw) ==
    CASE e.type = "heavy" -> updateHeavyBehavior(e, distance, step, level)
      [] e.type = "ranged" ->
           updateRangedBehavior(e, distance, step, level, threatLevel, draw)
      [] e.type = "scout" -> updateScoutBehavior(e, distance, step, level, draw)
      [] e.type = "exploder" -> updateExploderBehavior(e, distance, step, level)
      [] e.type = "drone" -> updateDroneBehavior(e, distance, step, level)
      [] OTHER -> e

\* Enemy.updateByType(playerPosition, level) as Enemy.update calls it for
\* roster enemy n, alive and not thrown.  The attack and the projectiles are
\* left out; distance is the player's distance before the locomotion step,
\* step.reached tells whether the step ends within 2 units of the cached
\* cover.  The path update that picks the target of the step is the action
\* updatePathfinding.
updateByTypeOf(n, distance, step, level, draw) ==
    /\ isAlive(enemies[n])
    /\ ~ enemies[n].isThrown
    /\ enemies' = [ enemies EXCEPT
                      ![n] = ByType(enemies[n], distance, step, level,
                                    playerThreatLevel, draw) ]
    /\ UNCHANGED << now, formations, lastFormationUpdate, playerThreatLevel, decayTimers >>

updateByType(levels, draws, steps) ==
    \E n \in 1 .. Len(enemies), distance \in TacticDistances, step \in steps,
       level \in levels, draw \in draws :
        updateByTypeOf(n, distance, step, level, draw)

\* the targets a path is asked for: 2 and 4 units apart
PathTargets == { Vector3(10, 0, 10), Vector3(12, 0, 10), Vector3(14, 0, 10) }

\* the waypoint lists PathFinder.findPath may return for a target: the target
\* alone, or the centre of its cell with up to two cell centres before it
PlansTo(target) ==
    { << target >>,
      << Vector3(1, 1, 1), Vector3(target.x, 1, target.z) >>,
      << Vector3(1, 1, 1), Vector3(2, 1, 1), Vector3(target.x, 1, target.z) >> }

\* variant of FollowWaypoints: the index advances with every call
FollowWaypoints_Always(e, target, near) ==
    IF Len(e.pathWaypoints) > e.currentWaypointIndex
    THEN [ e EXCEPT !.currentWaypointIndex = @ + 1,
                    !.moveTarget = << e.pathWaypoints[e.currentWaypointIndex + 1] >> ]
    ELSE [ e EXCEPT !.moveTarget = << target >> ]

\* the waypoint following of updatePathfinding; moveTarget is the value the
\* call returns
FollowWaypoints(e, target, near) ==
    IF Len(e.pathWaypoints) > e.currentWaypointIndex
    THEN [ e EXCEPT !.currentWaypointIndex = IF near THEN @ + 1 ELSE @,
                    !.moveTarget = << e.pathWaypoints[e.currentWaypointIndex + 1] >> ]
    ELSE [ e EXCEPT !.moveTarget = << target >> ]

\* variant of ReplanDue: every call plans anew
ReplanDue_EveryCall(e, target, currentTime) == TRUE

\* the condition of updatePathfinding under which the path is planned anew
ReplanDue(e, target, currentTime) ==
    \/ currentTime - e.lastPathUpdate > 2000
    \/ e.currentTarget = NoPosition
    \/ LET c == e.currentTarget[1]
       IN  (c.x - target.x) * (c.x - target.x) + (c.y - target.y) * (c.y - target.y)
             + (c.z - target.z) * (c.z - target.z) > 3 * 3

\* Enemy.updatePathfinding(targetPosition, level) of roster enemy n, as the
\* tactics of a living enemy call it.  plan is what findPath returns when it
\* is called, near tells whether the enemy is within 1.5 units of the current
\* waypoint; replanned records whether the call ran findPath.
updatePathfindingOf(n, target, plan, near) ==
    /\ isAlive(enemies[n])
    /\ ~ enemies[n].isThrown
    /\ LET e == enemies[n]
           planned == IF ReplanDue(e, target, now)
                      THEN [ e EXCEPT !.pathWaypoints = plan,
                                      !.currentWaypointIndex = 0,
                                      !.lastPathUpdate = now,
                                      !.currentTarget = << target >>,
                                      !.replanned = TRUE ]
                      ELSE [ e EXCEPT !.replanned = FALSE ]
       IN  enemies' = [ enemies EXCEPT ![n] = FollowWaypoints(planned, target, near) ]
    /\ UNCHANGED << now, formations, lastFormationUpdate, playerThreatLevel, decayTimers >>

updatePathfinding ==
    \E n \in 1 .. Len(enemies), target \in PathTargets, near \in BOOLEAN :
        \E plan \in PlansTo(target) : updatePathfindingOf(n, target, plan, near)

\* Game.spawnWave with an enemy of one of the given archetypes
spawnType(cap, types) ==
    /\ Len(enemies) < cap
    /\ \E position \in SpawnPoints, type \in types :
         enemies' = Append(enemies,
                           [ NewEnemy(EnemyIds[Len(enemies) + 1], position, 0)
                               EXCEPT !.type = type ])
    /\ UNCHANGED << now, formations, lastFormationUpdate, playerThreatLevel, decayTimers >>

\* variant of cleanup: the threat level is left as it stands
cleanup_KeepThreat ==
    /\ formations' = EmptyMap
    /\ UNCHANGED << now, enemies, lastFormationUpdate, playerThreatLevel, decayTimers >>

\* AICoordinator.cleanup(); the pending timers are not cancelled
cleanup ==
    /\ formations' = EmptyMap
    /\ playerThreatLevel' = 0
    /\ UNCHANGED << now, enemies, lastFormationUpdate, decayTimers >>

\* Game.restart(): the loop is stopped, the roster is emptied, the coordinator
\* is reset and the loop is started again
restart ==
    /\ tickAt = 0
    /\ enemies' = << >>
    /\ formations' = EmptyMap
    /\ playerThreatLevel' = 0
    /\ frameRequested' = TRUE
    /\ UNCHANGED << now, lastFormationUpdate, decayTimers,
                    tickAt, visited, faulted, frames, waveVars >>

\* variant of updateFormations: every call recomputes the formations
updateFormations_Unthrottled ==
    \E playerPosition \in PlayerPoints :
      LET aliveEnemies == AliveFrom(enemies, 1)
          groups == clusterEnemies(enemies, aliveEnemies, ClusterDistance)
      IN  /\ lastFormationUpdate' = now
          /\ formations' = FormationsOf(enemies, groups, playerPosition,
                                        playerThreatLevel, now)
          /\ enemies' = AssignRoles(enemies, groups)
          /\ UNCHANGED << now, playerThreatLevel, decayTimers >>

\* AICoordinator.updateFormations(enemies, playerPosition)
updateFormations ==
    \E playerPosition \in PlayerPoints :
      IF now - lastFormationUpdate < FormationInterval
      THEN UNCHANGED squadVars
      ELSE LET aliveEnemies == AliveFrom(enemies, 1)
               groups == clusterEnemies(enemies, aliveEnemies, ClusterDistance)
           IN  /\ lastFormationUpdate' = now
               /\ formations' = FormationsOf(enemies, groups, playerPosition,
                                             playerThreatLevel, now)
               /\ enemies' = AssignRoles(enemies, groups)
               /\ UNCHANGED << now, playerThreatLevel, decayTimers >>

\* the roster after updateAwareness of enemy n at the given time; seesPlayer
\* stands for hasLineOfSight && distance < 20.  alertNearbyEnemies is called
\* with an empty list of enemies.
Aware(es, n, seesPlayer, playerPosition, time) ==
    IF seesPlayer
    THEN LET seen == [ es EXCEPT
                         ![n].lastPlayerSightTime = time,
                         ![n].alertLevel = MinHundredPlus(es[n].alertLevel, 5),
                         ![n].lastKnownPlayerPosition = << playerPosition >> ]
         IN  IF GreaterThan(seen[n].alertLevel, Num(50))
             THEN alertNearby(seen, seen[n].id, playerPosition, {})
             ELSE seen
    ELSE IF time - es[n].lastPlayerSightTime > SightGrace
    THEN [ es EXCEPT ![n].alertLevel = MaxZeroMinus(es[n].alertLevel, 2) ]
    ELSE es

\* Enemy.updateAwareness(playerPosition, level)
updateAwarenessOf(n, seesPlayer, playerPosition) ==
    /\ isAlive(enemies[n])
    /\ enemies' = Aware(enemies, n, seesPlayer, playerPosition, now)
    /\ UNCHANGED << now, formations, lastFormationUpdate, playerThreatLevel, decayTimers >>

updateAwareness ==
    \E n \in 1 .. Len(enemies), seesPlayer \in BOOLEAN, playerPosition \in PlayerPoints :
        updateAwarenessOf(n, seesPlayer, playerPosition)

\* Enemy.receiveAlert(alerterId, playerPosition)
receiveAlert ==
    /\ \E n \in 1 .. Len(enemies), a \in 1 .. NumAgents, playerPosition \in PlayerPoints :
         /\ EnemyIds[a] # enemies[n].id
         /\ enemies' = [ enemies EXCEPT
                           ![n] = Alerted(enemies[n], EnemyIds[a], playerPosition) ]
    /\ UNCHANGED << now, formations, lastFormationUpdate, playerThreatLevel, decayTimers >>

\* the roster after takeDamage(amount) of enemy n at the given time
Damaged(es, n, amount, time) ==
    LET hit == [ es EXCEPT
                   ![n].lastDamageTime = time,
                   ![n].alertLevel = MinHundredPlus(es[n].alertLevel, 25) ]
        told == alertNearby(hit, hit[n].id, hit[n].position, {})
        alerted == SubSeq(told, 1, Len(told))
        hurt == [ alerted EXCEPT ![n].health = Max(0, alerted[n].health - amount) ]
        burst == IF /\ hurt[n].type = "exploder"
                    /\ 10 * hurt[n].health <= 3 * MaxHealth
                    /\ ~ hurt[n].explosionTriggered
                 THEN [ hurt EXCEPT ![n] = Exploded(hurt[n]) ]
                 ELSE hurt
    IN  [ burst EXCEPT ![n].coverPosition = NoPosition, ![n].atCover = FALSE ]

\* Enemy.takeDamage(amount), with its call of updatePlayerThreatLevel('damage')
takeDamageOf(n, amount) ==
    /\ Len(decayTimers) < MaxTimers
    /\ enemies' = Damaged(enemies, n, amount, now)
    /\ playerThreatLevel' = RaisedThreat(playerThreatLevel, "damage")
    /\ decayTimers' = Append(decayTimers, now + DecayDelay)
    /\ UNCHANGED << now, formations, lastFormationUpdate >>

takeDamage ==
    \E n \in 1 .. Len(enemies), amount \in 1 .. MaxHealth : takeDamageOf(n, amount)

\* AICoordinator.alertNearbyEnemies(alerterId, position, enemies) with the
\* id of roster enemy a and the enemies of list
alertNearbyEnemiesFor(a, position, list) ==
    /\ enemies' = alertNearby(enemies, enemies[a].id, position, list)
    /\ UNCHANGED << now, formations, lastFormationUpdate, playerThreatLevel, decayTimers >>

alertNearbyEnemies ==
    \E a \in 1 .. Len(enemies), position \in AlertPoints,
       list \in SUBSET (1 .. Len(enemies)) :
        alertNearbyEnemiesFor(a, position, list)

\* Enemy.explode(): the enemy is marked for removal
explode ==
    /\ \E n \in 1 .. Len(enemies) :
         /\ isAlive(enemies[n])
         /\ enemies' = [ enemies EXCEPT ![n] = Exploded(enemies[n]) ]
    /\ UNCHANGED << now, formations, lastFormationUpdate, playerThreatLevel, decayTimers >>

(***************************************************************************)
(* Game.gameLoop and Enemy.update                                          *)
(***************************************************************************)
\* the parts of Enemy.update in which an exception may be raised
Sections == { "awareness", "physics", "behavior", "formation", "display" }

\* the parts wrapped in try/catch: player tracking with awareness, and the
\* formation query
Guarded == { "awareness", "formation" }

\* the parts of update that run for enemy e once its counter stands at c
RunsIn(e, c) ==
    IF ~ isAlive(e) THEN {}
    ELSE (IF c % 10 = 0 THEN { "awareness" } ELSE {})
         \cup (IF e.isThrown THEN { "physics" }
               ELSE (IF c % 2 = 0 THEN { "behavior" } ELSE {})
                    \cup (IF e.formationRole # Null /\ e.formationId # Null /\ c % 10 = 0
                          THEN { "formation" } ELSE {})
                    \cup (IF c % 3 = 0 THEN { "display" } ELSE {}))

\* gameLoop up to the forEach over the enemies.  The roster holds no enemy
\* that cleanupInvalidEnemies would remove; coordination runs in the frames
\* that Math.random() < 0.02 picks.
gameLoop ==
    /\ frameRequested
    /\ tickAt = 0
    /\ frames < MaxFrames
    /\ frameRequested' = FALSE
    /\ tickAt' = 1
    /\ visited' = {}
    /\ faulted' = {}
    /\ frames' = frames + 1
    /\ UNCHANGED waveVars
    /\ \E coordinate \in BOOLEAN :
         IF coordinate THEN updateFormations ELSE UNCHANGED squadVars

\* enemy.update(playerPosition, level) for the enemy the forEach stands at.
\* fault names the part that raises an exception in this call, if any.  An
\* exception raised outside the guarded parts leaves update, the forEach and
\* gameLoop, which has no handler and so requests no further frame.
update ==
    /\ tickAt >= 1
    /\ tickAt <= Len(enemies)
    /\ \E fault \in Sections \cup { None }, seesPlayer \in BOOLEAN, lands \in BOOLEAN,
          playerPosition \in PlayerPoints :
         LET n == tickAt
             e == enemies[n]
             c == e.updateCounter + 1
             runs == RunsIn(e, c)
             counted == IF isAlive(e) THEN [ enemies EXCEPT ![n].updateCounter = c ]
                        ELSE enemies
             tracked == IF "awareness" \in runs /\ fault # "awareness"
                        THEN Aware(counted, n, seesPlayer, playerPosition, now)
                        ELSE counted
             moved == IF "physics" \in runs /\ fault # "physics" /\ lands
                      THEN [ tracked EXCEPT ![n].isThrown = FALSE ]
                      ELSE tracked
         IN  /\ fault \in runs \cup { None }
             /\ ("awareness" \in runs /\ fault # "awareness") \/ ~ seesPlayer
             /\ ("physics" \in runs /\ fault # "physics") \/ ~ lands
             /\ enemies' = moved
             /\ visited' = visited \cup { n }
             /\ faulted' = IF fault = None THEN faulted ELSE faulted \cup { n }
             /\ tickAt' = IF fault \in Sections \ Guarded THEN 0 ELSE n + 1
    /\ UNCHANGED << now, formations, lastFormationUpdate, playerThreatLevel,
                    decayTimers, frameRequested, frames, waveVars >>

\* the rest of gameLoop after the forEach, ending with
\* requestAnimationFrame(this.gameLoop)
nextFrame ==
    /\ tickAt = Len(enemies) + 1
    /\ tickAt' = 0
    /\ frameRequested' = TRUE
    /\ UNCHANGED << squadVars, visited, faulted, frames, waveVars >>

\* Game.spawnWave between two frames
spawnWave ==
    /\ tickAt = 0
    /\ spawnEnemy(FewAgents, CounterOffsets)
    /\ UNCHANGED loopVars

\* the player throws an enemy between two frames
playerThrows ==
    /\ tickAt = 0
    /\ throw
    /\ UNCHANGED loopVars

(***************************************************************************)
(* Game: the waves                                                         *)
(***************************************************************************)
\* frames between the end of a wave and the spawn of the next
WaveTransitionFrames == 180

\* Math.min(5 + Math.floor(waveNumber * 1.8), 25)
EnemyCount(waveNumber) == Min(5 + (waveNumber * 18) \div 10, 25)

Repeat(x, count) == [ i \in 1 .. count |-> x ]

\* Game.determineEnemyTypes(waveNumber) for a wave of count enemies, with
\* the shuffle leaving the order as it is
determineEnemyTypes(waveNumber, count) ==
    Repeat("normal", Max(1, (count * 4) \div 10))
    \o (IF waveNumber >= 2 THEN Repeat("scout", (count * 3) \div 10) ELSE << >>)
    \o (IF waveNumber >= 3 THEN Repeat("heavy", (count * 2) \div 10) ELSE << >>)
    \o (IF waveNumber >= 4 THEN Repeat("ranged", (count * 25) \div 100) ELSE << >>)
    \o (IF waveNumber >= 5 THEN Repeat("drone", (count * 15) \div 100) ELSE << >>)
    \o (IF waveNumber >= 6 THEN Repeat("exploder", Max(1, count \div 10)) ELSE << >>)
    \o (IF waveNumber >= 8 THEN Repeat("shielded", Max(1, (count * 15) \div 100))
        ELSE << >>)

\* the spawn position found for the k-th enemy of a roster: at 10 to 22 units
\* from the centre, clear of the level and 3 units or more from every other
RingPoint(k) ==
    LET reach == 20 + 8 * (((k - 1) \div 4) % 4)
    IN  CASE (k - 1) % 4 = 0 -> Vector3(reach, 0, 0)
          [] (k - 1) % 4 = 1 -> Vector3(0, 0, reach)
          [] (k - 1) % 4 = 2 -> Vector3(0 - reach, 0, 0)
          [] OTHER -> Vector3(0, 0, 0 - reach)

\* the roster after Game.spawnEnemies(waveNumber) with enemiesInCurrentWave
\* at count: every enemy finds its spawn position and is pushed
spawnEnemies(es, waveNumber, count) ==
    LET enemyTypes == determineEnemyTypes(waveNumber, count)
    IN  es \o [ i \in 1 .. count |->
                  [ NewEnemy(EnemyIds[((Len(es) + i - 1) % Len(EnemyIds)) + 1],
                             RingPoint(Len(es) + i), 0)
                      EXCEPT !.type = enemyTypes[((i - 1) % Len(enemyTypes)) + 1] ] ]

\* a suspended call spawnWave(waveNumber), made by startFirstWave or by gameLoop
Suspended(waveNumber, caller) == [ waveNumber |-> waveNumber, caller |-> caller ]

\* Game.start(): without a scheduled loop it schedules gameLoop and calls
\* startFirstWave, which runs spawnWave(1) up to its await: the roster is
\* cleared and the call is suspended.  The resumption is a microtask
\* (PathFinder.initializeGrid of AIBehavior.ts returns no promise), so no
\* other handler runs while a call is suspended.
gameStart ==
    /\ spawning = << >>
    /\ ~ animationId
    /\ gameRunning' = TRUE
    /\ animationId' = TRUE
    /\ currentWave' = 1
    /\ enemies' = << >>
    /\ spawning' = << Suspended(1, "startFirstWave") >>
    /\ UNCHANGED << betweenWaves, waveTransitionTimer, enemiesInCurrentWave,
                    gameStartTime >>
    /\ UNCHANGED << now, formations, lastFormationUpdate, playerThreatLevel, decayTimers >>
    /\ UNCHANGED << frameRequested, tickAt, visited, faulted, frames >>

\* Game.restart(): stop(), the reset of the wave state, of the roster and of
\* the coordinator, then startFirstWave() and start(), which finds no
\* scheduled loop and calls startFirstWave() once more
gameRestart ==
    /\ spawning = << >>
    /\ currentWave' = 1
    /\ betweenWaves' = FALSE
    /\ waveTransitionTimer' = 0
    /\ enemies' = << >>
    /\ formations' = EmptyMap
    /\ playerThreatLevel' = 0
    /\ gameRunning' = TRUE
    /\ animationId' = TRUE
    /\ spawning' = << Suspended(1, "startFirstWave"), Suspended(1, "startFirstWave") >>
    /\ UNCHANGED << enemiesInCurrentWave, gameStartTime, now, lastFormationUpdate,
                    decayTimers >>
    /\ UNCHANGED << frameRequested, tickAt, visited, faulted, frames >>

\* Game.spawnWave(waveNumber) from its await on: the oldest suspended call
\* sets the wave's enemy count, spawns the enemies and ends the transition;
\* startFirstWave then notes the time of the game's start
spawnWaveResumed ==
    /\ spawning # << >>
    /\ LET waveNumber == Head(spawning).waveNumber
           count == EnemyCount(waveNumber)
       IN  /\ enemiesInCurrentWave' = count
           /\ enemies' = spawnEnemies(enemies, waveNumber, count)
    /\ gameStartTime' = IF Head(spawning).caller = "startFirstWave" THEN now
                        ELSE gameStartTime
    /\ betweenWaves' = FALSE
    /\ spawning' = Tail(spawning)
    /\ UNCHANGED << animationId, gameRunning, currentWave, waveTransitionTimer >>
    /\ UNCHANGED << now, formations, lastFormationUpdate, playerThreatLevel, decayTimers >>
    /\ UNCHANGED << frameRequested, tickAt, visited, faulted, frames >>

\* what happens to an enemy in a frame: a lethal hit of the lightsaber or of
\* a laser, the lethal landing of an enemy the player has thrown, or nothing
FrameEvents == { "attack", "landing", "none" }

\* index of the first living enemy of the roster, 0 when there is none
FirstAlive(es) ==
    IF \E n \in 1 .. Len(es) : isAlive(es[n])
    THEN CHOOSE n \in 1 .. Len(es) :
           isAlive(es[n]) /\ \A k \in 1 .. n - 1 : ~ isAlive(es[k])
    ELSE 0

\* enemies.splice(n, 1)
Without(es, n) == SubSeq(es, 1, n - 1) \o SubSeq(es, n + 1, Len(es))

\* the roster after the checkCollisions of a frame in which enemy n met the
\* event: the enemy killed by an attack is spliced out of the roster
checkCollisions(es, n, event) ==
    IF event = "attack" THEN Without(Damaged(es, n, MaxHealth, now), n) ELSE es

\* one run of Game.gameLoop, of which the wave state and the roster are
\* kept: the countdown of the transition with its call of spawnWave, the
\* update of the enemies, in which a thrown enemy may land and take the
\* damage of the landing, and checkCollisions with the check of the wave's
\* completion.  The enemies stay where cleanupInvalidEnemies leaves them.
runFrameOf(event) ==
    LET due == betweenWaves /\ waveTransitionTimer - 1 <= 0
        cleared == IF due THEN << >> ELSE enemies
        n == FirstAlive(cleared)
        updated == IF event = "landing"
                   THEN Damaged([ cleared EXCEPT ![n].isThrown = FALSE ], n, MaxHealth, now)
                   ELSE cleared
        checked == checkCollisions(updated, n, event)
        complete == checked = << >> /\ ~ betweenWaves
    IN  /\ animationId
        /\ gameRunning
        /\ spawning = << >>
        /\ event # "none" => n # 0
        /\ complete => currentWave < MaxWave
        /\ enemies' = checked
        /\ spawning' = IF due THEN << Suspended(currentWave, "gameLoop") >> ELSE spawning
        /\ currentWave' = IF complete THEN currentWave + 1 ELSE currentWave
        /\ betweenWaves' = (betweenWaves \/ complete)
        /\ waveTransitionTimer' = IF complete THEN WaveTransitionFrames
                                  ELSE IF betweenWaves THEN waveTransitionTimer - 1
                                  ELSE waveTransitionTimer
        /\ UNCHANGED << animationId, gameRunning, enemiesInCurrentWave, gameStartTime >>
        /\ UNCHANGED << now, formations, lastFormationUpdate, playerThreatLevel,
                        decayTimers >>
        /\ UNCHANGED << frameRequested, tickAt, visited, faulted, frames >>

runFrame == \E event \in FrameEvents : runFrameOf(event)

\* no handler, timer or clock tick comes between a suspended spawnWave call
\* and its resumption
NextReset ==
    \/ gameRestart /\ UNCHANGED pathVars
    \/ spawnWaveResumed /\ UNCHANGED pathVars
    \/ spawning = << >> /\ updatePlayerThreatLevel /\ UNCHANGED << pathVars, loopVars >>
    \/ spawning = << >> /\ decayTimerFires /\ UNCHANGED << pathVars, loopVars >>
    \/ spawning = << >> /\ Tick /\ UNCHANGED << pathVars, loopVars >>

NextWave ==
    \/ gameStart /\ UNCHANGED pathVars
    \/ gameRestart /\ UNCHANGED pathVars
    \/ spawnWaveResumed /\ UNCHANGED pathVars
    \/ runFrame /\ UNCHANGED pathVars

NextLoop ==
    \/ spawnWave /\ UNCHANGED pathVars
    \/ playerThrows /\ UNCHANGED pathVars
    \/ gameLoop /\ UNCHANGED pathVars
    \/ update /\ UNCHANGED pathVars
    \/ nextFrame /\ UNCHANGED pathVars

NextSquad ==
    \/ spawnEnemy(NumAgents, NoOffset) /\ UNCHANGED << pathVars, loopVars >>
    \/ throw /\ UNCHANGED << pathVars, loopVars >>
    \/ land /\ UNCHANGED << pathVars, loopVars >>
    \/ updateFormations /\ UNCHANGED << pathVars, loopVars >>
    \/ cleanup /\ UNCHANGED << pathVars, loopVars >>
    \/ Tick /\ UNCHANGED << pathVars, loopVars >>

NextAgent ==
    \/ spawnEnemy(1, NoOffset) /\ UNCHANGED << pathVars, loopVars >>
    \/ updateAwareness /\ UNCHANGED << pathVars, loopVars >>
    \/ receiveAlert /\ UNCHANGED << pathVars, loopVars >>
    \/ takeDamage /\ UNCHANGED << pathVars, loopVars >>
    \/ decayTimerFires /\ UNCHANGED << pathVars, loopVars >>
    \/ Tick /\ UNCHANGED << pathVars, loopVars >>

\* a squad large enough for a formation of four
SquadSize == NumAgents + 1

NextCoordinator ==
    \/ addEnemy(SquadSize, AlertLevels) /\ UNCHANGED << pathVars, loopVars >>
    \/ updateFormations /\ UNCHANGED << pathVars, loopVars >>

NextTactics ==
    \/ spawnEnemy(SquadSize, NoOffset) /\ UNCHANGED << pathVars, loopVars >>
    \/ updatePlayerThreatLevel /\ UNCHANGED << pathVars, loopVars >>
    \/ updateFormations /\ UNCHANGED << pathVars, loopVars >>

NextAlert ==
    \/ addEnemy(FewAgents, AlertLevels) /\ UNCHANGED << pathVars, loopVars >>
    \/ explode /\ UNCHANGED << pathVars, loopVars >>
    \/ alertNearbyEnemies /\ UNCHANGED << pathVars, loopVars >>

NextAwareness ==
    \/ addEnemy(FewAgents, AlertLevels) /\ UNCHANGED << pathVars, loopVars >>
    \/ updateAwareness /\ UNCHANGED << pathVars, loopVars >>

NextSession ==
    \/ spawnEnemy(FewAgents, NoOffset) /\ UNCHANGED << pathVars, loopVars >>
    \/ updateFormations /\ UNCHANGED << pathVars, loopVars >>
    \/ updatePlayerThreatLevel /\ UNCHANGED << pathVars, loopVars >>
    \/ cleanup /\ UNCHANGED << pathVars, loopVars >>
    \/ restart /\ UNCHANGED pathVars

NextPlacement ==
    \/ spawnEnemy(SquadSize, NoOffset) /\ UNCHANGED << pathVars, loopVars >>
    \/ updateFormations /\ UNCHANGED << pathVars, loopVars >>
    \/ getFormationPosition /\ UNCHANGED << pathVars, loopVars >>

\* a cooldown of 60, taken as the draw of 60 + Math.random() * 60
ShortCooldown == { 120 }

\* the locomotion steps of an enemy away from its targetPosition
FarSteps == { [ apart |-> TRUE, reached |-> r ] : r \in BOOLEAN }

NextCover ==
    \/ spawnType(1, { "heavy", "ranged" }) /\ UNCHANGED << pathVars, loopVars >>
    \/ takeDamage /\ UNCHANGED << pathVars, loopVars >>
    \/ updateByType(CoverLevels, ShortCooldown, FarSteps) /\ UNCHANGED << pathVars, loopVars >>

\* the locomotion steps: away from targetPosition or within 1.5 units of it
AllSteps == FarSteps \cup { [ apart |-> FALSE, reached |-> FALSE ] }

\* level arguments without a checkCollision: on open ground, and where a
\* checkCollision would report the sight line and every step as obstructed
\* and the first candidate as cover
BlindLevels ==
    { NoOracle,
      [ NoOracle EXCEPT !.shelter = { 1 }, !.wall = TRUE, !.ahead = TRUE,
                        !.sides = 1 .. 4 ] }

NextBlind ==
    \/ spawnType(1, { "heavy", "ranged", "scout", "exploder" })
         /\ UNCHANGED << pathVars, loopVars >>
    \/ takeDamage /\ UNCHANGED << pathVars, loopVars >>
    \/ updateByType(BlindLevels, ShortCooldown, AllSteps) /\ UNCHANGED << pathVars, loopVars >>

NextPlan ==
    \/ spawnType(1, { "heavy" }) /\ UNCHANGED << pathVars, loopVars >>
    \/ updatePathfinding /\ UNCHANGED << pathVars, loopVars >>
    \/ Tick /\ UNCHANGED << pathVars, loopVars >>

\* distances inside the standoff band of a ranged enemy at threat level 0,
\* optimalRange - 3 .. optimalRange + 3 with optimalRange = 8
BandDistances == { 6, 9 }

\* the tactic tick of an enemy that stays inside the standoff band
updateInBand ==
    \E n \in 1 .. Len(enemies), distance \in BandDistances, step \in FarSteps,
       draw \in ShortCooldown :
        /\ updateByTypeOf(n, distance, step, NoOracle, draw)
        /\ UNCHANGED << pathVars, loopVars >>

NextStrafe ==
    \/ spawnType(1, { "ranged" }) /\ UNCHANGED << pathVars, loopVars >>
    \/ takeDamage /\ UNCHANGED << pathVars, loopVars >>
    \/ updateInBand

\* distances within the dive range of a drone
DiveDistances == { 1, 4 }

\* the tactic tick of an enemy that stays within dive range
updateInReach ==
    \E n \in 1 .. Len(enemies), distance \in DiveDistances, step \in AllSteps,
       level \in { NoOracle, OpenLevel }, draw \in ShortCooldown :
        /\ updateByTypeOf(n, distance, step, level, draw)
        /\ UNCHANGED << pathVars, loopVars >>

NextDrone ==
    \/ spawnType(1, { "drone" }) /\ UNCHANGED << pathVars, loopVars >>
    \/ takeDamage /\ UNCHANGED << pathVars, loopVars >>
    \/ updateInReach

NextCluster ==
    \/ spawnEnemy(NumAgents, NoOffset) /\ UNCHANGED << pathVars, loopVars >>
    \/ throw /\ UNCHANGED << pathVars, loopVars >>
    \/ land /\ UNCHANGED << pathVars, loopVars >>
    \/ takeDamage /\ UNCHANGED << pathVars, loopVars >>
    \/ updateFormations /\ UNCHANGED << pathVars, loopVars >>

\* level arguments with a checkCollision that reports the end of the direct
\* step and the ends of any of the deflected steps as obstructed
StepLevels ==
    { NoOracle }
    \cup { [ OpenLevel EXCEPT !.ahead = a, !.sides = s ] :
             a \in BOOLEAN,
             s \in { {}, { 1 }, { 1, 2 }, { 1, 2, 3 }, 1 .. 4, { 2, 3, 4 } } }

NextStep ==
    \/ spawnType(1, { "heavy", "exploder" }) /\ UNCHANGED << pathVars, loopVars >>
    \/ takeDamage /\ UNCHANGED << pathVars, loopVars >>
    \/ updateByType(StepLevels, ShortCooldown, AllSteps) /\ UNCHANGED << pathVars, loopVars >>

\* initial updateCounter values from which the counter reaches a multiple of
\* 10 after two updates and after one
LateOffsets == { 8, 9 }

\* two spawn points within the cluster distance of each other
ClosePoints == { Vector3(0, 0, 0), Vector3(20, 0, 0) }

\* Game.spawnWave with an enemy of one of the given archetypes and counter
\* phases
spawnTicking(cap, types, offsets) ==
    /\ Len(enemies) < cap
    /\ \E position \in ClosePoints, type \in types, offset \in offsets :
         enemies' = Append(enemies,
                           [ NewEnemy(EnemyIds[Len(enemies) + 1], position, offset)
                               EXCEPT !.type = type ])
    /\ UNCHANGED << now, formations, lastFormationUpdate, playerThreatLevel, decayTimers >>

\* variant of TacticDue: the tactic runs on every third tick
TacticDue_Thirds(c) == c % 3 = 0

\* the throttle of updateByType in Enemy.update
TacticDue(c) == c % 2 = 0

\* Enemy.update(playerPosition, level) of roster enemy n, no part of it
\* raising an exception.  seesPlayer stands for hasLineOfSight && distance <
\* 20 in updateAwareness, lands tells whether handleThrowPhysics brings a
\* thrown enemy to the ground (it then takes the landing damage, here any
\* amount), distance is the player's distance as the tactic sees it.  The
\* projectiles and the display are left out.
enemyUpdateOf(n, seesPlayer, lands, amount, distance) ==
    /\ enemies[n].updateCounter < MaxCounter
    /\ \E playerPosition \in PlayerPoints, draw \in ShortCooldown :
         LET e == enemies[n]
             c == e.updateCounter + 1
             counted == [ enemies EXCEPT ![n].updateCounter = c ]
             tracked == IF c % 10 = 0
                        THEN Aware(counted, n, seesPlayer, playerPosition, now)
                        ELSE counted
             acted == IF TacticDue(c)
                      THEN [ tracked EXCEPT
                               ![n] = ByType(tracked[n], distance,
                                             [ apart |-> TRUE, reached |-> FALSE ],
                                             NoOracle, playerThreatLevel, draw) ]
                      ELSE tracked
             placed == IF /\ acted[n].formationRole # Null
                          /\ acted[n].formationId # Null
                          /\ c % 10 = 0
                       THEN [ acted EXCEPT
                                ![n].formationTarget =
                                    << FormationPoint(formations, acted[n], playerPosition,
                                                      8, 1, 0) >> ]
                       ELSE acted
         IN  IF ~ isAlive(e) THEN UNCHANGED squadVars
             ELSE IF tracked[n].isLevitating
             THEN /\ enemies' = tracked
                  /\ UNCHANGED << now, formations, lastFormationUpdate,
                                  playerThreatLevel, decayTimers >>
             ELSE IF tracked[n].isThrown
             THEN IF lands /\ Len(decayTimers) < MaxTimers
                  THEN /\ enemies' = Damaged([ tracked EXCEPT ![n].isThrown = FALSE ],
                                             n, amount, now)
                       /\ playerThreatLevel' = RaisedThreat(playerThreatLevel, "damage")
                       /\ decayTimers' = Append(decayTimers, now + DecayDelay)
                       /\ UNCHANGED << now, formations, lastFormationUpdate >>
                  ELSE /\ enemies' = tracked
                       /\ UNCHANGED << now, formations, lastFormationUpdate,
                                       playerThreatLevel, decayTimers >>
             ELSE /\ enemies' = placed
                  /\ UNCHANGED << now, formations, lastFormationUpdate,
                                  playerThreatLevel, decayTimers >>

enemyUpdate(landings) ==
    \E n \in 1 .. Len(enemies), seesPlayer \in BOOLEAN, lands \in landings,
       amount \in { 1, MaxHealth }, distance \in { 1, 16 } :
        enemyUpdateOf(n, seesPlayer, lands, amount, distance)

NextUpdate ==
    \/ spawnTicking(FewAgents, { "drone", "exploder" }, LateOffsets)
         /\ UNCHANGED << pathVars, loopVars >>
    \/ levitate /\ UNCHANGED << pathVars, loopVars >>
    \/ throw /\ UNCHANGED << pathVars, loopVars >>
    \/ updateFormations /\ UNCHANGED << pathVars, loopVars >>
    \/ enemyUpdate({ FALSE }) /\ UNCHANGED << pathVars, loopVars >>

NextExploder ==
    \/ spawnType(FewAgents, { "exploder" }) /\ UNCHANGED << pathVars, loopVars >>
    \/ takeDamage /\ UNCHANGED << pathVars, loopVars >>
    \/ updateByType({ NoOracle }, ShortCooldown, FarSteps) /\ UNCHANGED << pathVars, loopVars >>

NextThreat ==
    \/ updatePlayerThreatLevel /\ UNCHANGED << pathVars, loopVars >>
    \/ decayTimerFires /\ UNCHANGED << pathVars, loopVars >>
    \/ cleanup /\ UNCHANGED << pathVars, loopVars >>
    \/ Tick /\ UNCHANGED << pathVars, loopVars >>

SpecPath == Init /\ [][NextPath]_vars
SpecSquad == Init /\ [][NextSquad]_vars
SpecAgent == Init /\ [][NextAgent]_vars
SpecThreat == Init /\ [][NextThreat]_vars
SpecLoop == Init /\ [][NextLoop]_vars
SpecCoordinator == Init /\ [][NextCoordinator]_vars
SpecTactics == Init /\ [][NextTactics]_vars
SpecAlert == Init /\ [][NextAlert]_vars
SpecAwareness == Init /\ [][NextAwareness]_vars
SpecSession == Init /\ [][NextSession]_vars
SpecPlacement == Init /\ [][NextPlacement]_vars
SpecCover == Init /\ [][NextCover]_vars
SpecExploder == Init /\ [][NextExploder]_vars
SpecBlind == Init /\ [][NextBlind]_vars
SpecPlan == Init /\ [][NextPlan]_vars

\* Game.gameLoop updates every roster enemy in every frame, so the tactic
\* tick of a living enemy keeps coming
SpecStrafe == Init /\ [][NextStrafe]_vars /\ WF_vars(updateInBand)
SpecCluster == Init /\ [][NextCluster]_vars
SpecStep == Init /\ [][NextStep]_vars
SpecUpdate == Init /\ [][NextUpdate]_vars
SpecReset == Init /\ [][NextReset]_vars
\* requestAnimationFrame runs gameLoop again and again, and the microtask of
\* a suspended spawnWave call is run
SpecWave ==
    /\ Init /\ [][NextWave]_vars
    /\ WF_vars(runFrameOf("none") /\ UNCHANGED pathVars)
    /\ WF_vars(spawnWaveResumed /\ UNCHANGED pathVars)
SpecDrone == Init /\ [][NextDrone]_vars /\ WF_vars(updateInReach)

(***************************************************************************)
(* PathFinder: properties                                                  *)
(***************************************************************************)
startGrid == worldToGrid(start)
endGrid == worldToGrid(end)
Returned == pc = "done"
Last(q) == q[Len(q)]
Obstructed(p) == worldToGrid(p) \in grid.blocked
Adjacent(a, b) == Abs(a.x - b.x) + Abs(a.z - b.z) = 2 * gridSize

\* C1: every findPath call terminates.  The search loop ends in every run of
\* the model; the reconstruction walk follows a map that no longer changes,
\* so it finishes after finitely many steps exactly if it never comes back
\* to a cell it has already put on the path.
C1_ReconstructionTerminates == pc = "reconstruct" => NoRevisit(path)

\* C2: whenever findPath returns, the returned sequence is not empty and its
\* last waypoint is the destination: the end point itself or the world image
\* of the end point's cell.
C2_ReturnsPathToDestination ==
    Returned => /\ Len(result) >= 1
                /\ worldToGrid(Last(result)) = endGrid
                /\ Last(result) \in { end, Vector3((2 * endGrid[1] - size) * gridSize, 2,
                                                   (2 * endGrid[2] - size) * gridSize) }

\* a searched path of two waypoints was returned whose last waypoint is the
\* image of the end cell and not the end point
C2_Witness ==
    /\ Returned
    /\ outcome = "path"
    /\ Len(result) = 2
    /\ Last(result) # end

\* C3: when the grid is uninitialized or the start cell or the end cell is
\* obstructed, findPath returns exactly [end] and no search has run.
C3_InvalidInputFallsBack ==
    (Returned /\ (~ grid.ready \/ Obstructed(start) \/ Obstructed(end)))
        => /\ result = << end >>
           /\ expansions = 0
           /\ gScore = EmptyMap

\* findPath returned on an initialized grid whose end cell is obstructed
C3_Witness ==
    /\ Returned
    /\ grid.ready
    /\ Obstructed(end)
    /\ ~ Obstructed(start)

\* C4: once a search has made more than 200 node expansions it has stopped
\* and findPath has returned the direct-path fallback.
C4_SearchStopsAfter200Expansions ==
    expansions > OpenSetLimit
        => /\ Returned
           /\ result = MapGridToWorld(<< endGrid >>)

\* C5: on a fully open grid findPath returns a searched path whose number of
\* steps is the Manhattan distance between the start cell and the end cell
\* (so a path under reconstruction never has more steps than that).
C5_OpenGridPathIsManhattan ==
    (grid.ready /\ grid.blocked = {})
        => /\ Returned => /\ outcome = "path"
                          /\ Len(result) - 1 = heuristic(startGrid, endGrid)
           /\ pc = "reconstruct" => Len(path) - 1 <= heuristic(startGrid, endGrid)

\* C6 as stated: a searched path between two different cells does not
\* contain the start cell and ends with the end cell.
C6_StartExcluded ==
    (Returned /\ outcome = "path" /\ startGrid # endGrid)
        => /\ \A i \in 1 .. Len(result) : worldToGrid(result[i]) # startGrid
           /\ worldToGrid(Last(result)) = endGrid

\* C6 amended: a searched path begins with the start cell, ends with the end
\* cell, and steps from each waypoint to an orthogonally adjacent one.
C6_StartIncluded ==
    (Returned /\ outcome = "path")
        => /\ Len(result) >= 1
           /\ worldToGrid(result[1]) = startGrid
           /\ worldToGrid(Last(result)) = endGrid
           /\ \A i \in 1 .. Len(result) - 1 : Adjacent(result[i], result[i + 1])

\* a searched path between two different cells was returned
C6_Witness ==
    /\ Returned
    /\ outcome = "path"
    /\ startGrid # endGrid
    /\ Len(result) = 2

\* the cells a 4-connected route of at most k steps over free cells of the
\* grid leads to from one of the given cells
RECURSIVE WithinSteps(_, _)
WithinSteps(cells, k) ==
    IF k = 0 THEN cells
    ELSE WithinSteps(cells \cup
                     { c \in UNION { { << d[1] + 1, d[2] >>, << d[1] - 1, d[2] >>,
                                        << d[1], d[2] + 1 >>, << d[1], d[2] - 1 >> } :
                                      d \in cells } :
                         /\ c[1] \in 0 .. size - 1
                         /\ c[2] \in 0 .. size - 1
                         /\ c \notin grid.blocked },
                     k - 1)

\* C28: on a grid with obstacles every searched path findPath returns steps
\* between orthogonally adjacent cells, holds no obstructed cell, and has no
\* more steps than any 4-connected route over free cells from start to end.
C28_SearchedPathIsShortest ==
    (Returned /\ outcome = "path" /\ grid.blocked # {})
        => /\ \A i \in 1 .. Len(result) - 1 : Adjacent(result[i], result[i + 1])
           /\ \A i \in 1 .. Len(result) : ~ Obstructed(result[i])
           /\ Len(result) >= 2
                => endGrid \notin WithinSteps({ startGrid }, Len(result) - 2)

\* a searched path of one step was returned on a grid with an obstacle
C28_Witness ==
    /\ Returned
    /\ outcome = "path"
    /\ grid.blocked # {}
    /\ Len(result) = 2
    /\ startGrid # endGrid


(***************************************************************************)
(* AICoordinator and Enemy: properties                                     *)
(***************************************************************************)
MemberSet(f) == { f.members[m] : m \in 1 .. Len(f.members) }

\* C7: the global player threat level always lies in [0,100], whatever the
\* interleaving of updatePlayerThreatLevel calls, decay timers and cleanup().
C7_ThreatInRange == playerThreatLevel >= 0 /\ playerThreatLevel <= 100

\* the threat stands at the ceiling after a burst of actions whose decays
\* are all still pending
C7_Witness ==
    /\ playerThreatLevel = 100
    /\ Len(decayTimers) = MaxTimers

\* C8: from construction onward every agent's alertLevel is a number in
\* [0,100].
C8_AlertLevelInRange ==
    \A n \in 1 .. Len(enemies) :
        /\ IsNumber(enemies[n].alertLevel)
        /\ enemies[n].alertLevel.v >= 0
        /\ enemies[n].alertLevel.v <= 100

\* C9: the formations of the coordinator are pairwise disjoint, no agent id
\* occurs twice in one member list, and every formation has at least two
\* members.
C9_FormationsDisjoint ==
    /\ \A f \in DOMAIN formations :
          /\ Len(formations[f].members) >= 2
          /\ Cardinality(MemberSet(formations[f])) = Len(formations[f].members)
    /\ \A f, g \in DOMAIN formations :
          f # g => MemberSet(formations[f]) \cap MemberSet(formations[g]) = {}

\* a pass has just formed a group of two out of a roster of three agents that
\* are all alive and on the ground
C9_Witness ==
    /\ Len(enemies) = 3
    /\ lastFormationUpdate = now
    /\ \A n \in 1 .. Len(enemies) : isAlive(enemies[n]) /\ ~ isBeingThrown(enemies[n])
    /\ \E f \in DOMAIN formations : Len(formations[f].members) = 2

\* an agent holds a formation assignment only if the formation with that id
\* lists the agent
AssignmentsMatchFormations ==
    \A n \in 1 .. Len(enemies) :
        (enemies[n].formationRole # Null \/ enemies[n].formationId # Null)
            => /\ enemies[n].formationId \in DOMAIN formations
               /\ enemies[n].id \in MemberSet(formations[enemies[n].formationId])

\* C10: every effective rebalance pass (a step that moves
\* lastFormationUpdate) ends in a state where an agent holds a formation
\* assignment only if the formation with that id lists the agent.
C10_PassLeavesNoStaleAssignment ==
    [][ lastFormationUpdate' # lastFormationUpdate => AssignmentsMatchFormations' ]_vars

\* C12: a pass that recomputes the formations comes at least
\* FormationInterval ms after the one before it, and a call of
\* updateFormations made earlier than that changes neither the formations nor
\* any enemy.
C12_PassesAreIntervalApart ==
    [][ /\ lastFormationUpdate' # lastFormationUpdate
              => now - lastFormationUpdate >= FormationInterval
        /\ (updateFormations /\ now - lastFormationUpdate < FormationInterval)
              => (formations' = formations /\ enemies' = enemies) ]_vars

\* a second pass has formed a formation, and a call made now comes too early
C12_Witness ==
    /\ lastFormationUpdate >= 2 * FormationInterval
    /\ now > lastFormationUpdate
    /\ now - lastFormationUpdate < FormationInterval
    /\ formations # EmptyMap

EnemyById(id) == enemies[CHOOSE n \in 1 .. Len(enemies) : enemies[n].id = id]

\* C13: the leader of every formation is one of its members, and no member
\* has an alert level strictly above the leader's.
C13_LeaderHasHighestAlert ==
    \A fid \in DOMAIN formations :
        LET f == formations[fid]
        IN  /\ f.leader \in MemberSet(f)
            /\ \A m \in MemberSet(f) :
                   ~ GreaterThan(EnemyById(m).alertLevel, EnemyById(f.leader).alertLevel)

\* a formation of three or more whose leader is its first member and stands
\* above another member
C13_Witness ==
    \E fid \in DOMAIN formations :
        LET f == formations[fid]
        IN  /\ Len(f.members) >= 3
            /\ f.leader = f.members[1]
            /\ \E m \in MemberSet(f) :
                   GreaterThan(EnemyById(f.leader).alertLevel, EnemyById(m).alertLevel)

\* the members of f before position i that are not the leader
NonLeadersBefore(f, i) == Cardinality({ j \in 1 .. i - 1 : f.members[j] # f.leader })

C15_TypeFollowsPriorityRule ==
    [][ lastFormationUpdate' # lastFormationUpdate
          => \A fid \in DOMAIN formations' :
                LET f == formations'[fid]
                IN  f.formationType =
                        IF playerThreatLevel > 70 THEN "scatter"
                        ELSE IF Len(f.members) >= 4 THEN "surround"
                        ELSE IF Len(f.members) = 3 THEN "pincer"
                        ELSE "line" ]_vars

\* a pass under a threat above 70 has just formed a formation of four
C15_Witness ==
    /\ lastFormationUpdate = now
    /\ playerThreatLevel > 70
    /\ \E fid \in DOMAIN formations :
          /\ Len(formations[fid].members) >= 4
          /\ formations[fid].formationType = "scatter"

\* C18: while the player is not in sight, an awareness update leaves the alert
\* level as it is until more than SightGrace has passed since the last
\* sighting; after that each awareness update lowers the level, never below 0.
C18_AlertHysteresis ==
    [][ \A n \in 1 .. Len(enemies), playerPosition \in PlayerPoints :
          updateAwarenessOf(n, FALSE, playerPosition)
          => IF now - enemies[n].lastPlayerSightTime > SightGrace
             THEN /\ IsNumber(enemies'[n].alertLevel)
                  /\ IsNumber(enemies[n].alertLevel)
                  /\ enemies'[n].alertLevel.v >= 0
                  /\ \/ enemies'[n].alertLevel.v < enemies[n].alertLevel.v
                     \/ enemies[n].alertLevel.v = 0
             ELSE enemies'[n].alertLevel = enemies[n].alertLevel ]_vars

\* C19: every updatePlayerThreatLevel call adds one decay timer of its own,
\* due DecayDelay later, and leaves the pending ones in place; a timer goes
\* only by firing, one at a time and not before it is due, and its callback
\* lowers the threat by 5, not below 0.
C19_OneDecayPerCall ==
    [][ /\ (\E action \in ThreatActions : updatePlayerThreatLevelOf(action))
            => decayTimers' = Append(decayTimers, now + DecayDelay)
        /\ decayTimers' # decayTimers
            => \/ decayTimers' = Append(decayTimers, now + DecayDelay)
               \/ /\ decayTimers # << >>
                  /\ decayTimers' = Tail(decayTimers)
                  /\ Head(decayTimers) <= now
                  /\ playerThreatLevel' = Max(0, playerThreatLevel - 5) ]_vars

\* three calls made at the same instant have three decays pending, all due
C19_Witness ==
    /\ Len(decayTimers) >= 3
    /\ decayTimers[1] = decayTimers[3]
    /\ decayTimers[1] <= now

\* C20: one updatePlayerThreatLevel(action) sets the threat to
\* min(100, previous + delta), delta being 15 for kill, 5 for damage, 10 for
\* telekinesis and 20 for headshot.
C20_ThreatRisesByDelta ==
    [][ \A action \in ThreatActions :
          updatePlayerThreatLevelOf(action)
          => playerThreatLevel' =
               Min(100, playerThreatLevel +
                          ( IF action = "kill" THEN 15
                            ELSE IF action = "damage" THEN 5
                            ELSE IF action = "telekinesis" THEN 10
                            ELSE 20 )) ]_vars

\* a kill and a headshot, in either order, before any decay could fire
C20_Witness ==
    /\ now < DecayDelay
    /\ Len(decayTimers) = 2
    /\ playerThreatLevel = 35

\* C21: after the coordinator is reset, by cleanup() alone or within
\* Game.restart, it holds no formations and the threat level is 0.
C21_ResetClearsCoordinator ==
    [][ (cleanup \/ restart)
        => (formations' = EmptyMap /\ playerThreatLevel' = 0) ]_vars

\* the coordinator stands reset although a formation pass has run on a roster
\* that still holds a cluster and the decays of earlier actions are pending
C21_Witness ==
    /\ formations = EmptyMap
    /\ playerThreatLevel = 0
    /\ decayTimers # << >>
    /\ lastFormationUpdate = now
    /\ \E n \in 1 .. Len(enemies) : enemies[n].formationId # Null

\* C22: in a surround formation of n members the member at index i of the
\* member list is sent to angular slot i, i steps of a full circle cut in n, on
\* the circle around the player; the n slots are pairwise distinct.
C22_SurroundSlotIsMemberIndex ==
    [][ \A k \in 1 .. Len(enemies), playerPos \in PlayerPoints,
           distance \in FormationDistances :
          ( /\ getFormationPositionFor(k, playerPos, distance)
            /\ enemies[k].formationId \in DOMAIN formations
            /\ formations[enemies[k].formationId].formationType = "surround" )
          => LET members == formations[enemies[k].formationId].members
                 n == Len(members)
             IN  /\ \A i \in 1 .. n :
                      members[i] = enemies[k].id
                      => enemies'[k].formationTarget =
                           << [ center |-> playerPos, base |-> "x",
                                distance |-> distance, turn |-> << i - 1, n >> ] >>
                 /\ \A i, j \in 1 .. n :
                      i # j => /\ members[i] # members[j]
                               /\ (i - 1) % n # (j - 1) % n ]_vars

\* every member of a surround formation of four holds its own slot
C22_Witness ==
    \E fid \in DOMAIN formations :
        /\ formations[fid].formationType = "surround"
        /\ Len(formations[fid].members) >= 4
        /\ \A i \in 1 .. Len(formations[fid].members) :
             /\ EnemyById(formations[fid].members[i]).formationTarget # NoPosition
             /\ EnemyById(formations[fid].members[i]).formationTarget[1].turn[1] = i - 1

\* enemy e is of an archetype that seeks cover, is hurt enough to do so (a
\* heavy below 40% health, a ranged one below 50%) and has no cover cached
LacksCover(e) ==
    /\ e.coverPosition = NoPosition
    /\ \/ e.type = "heavy" /\ 10 * e.health < 4 * MaxHealth
       \/ e.type = "ranged" /\ 2 * e.health < MaxHealth

\* the tick of enemy e runs the cover search: e lacks cover and is a heavy
\* within 15 units of the player, or a ranged one that sees the player within
\* optimalRange + 3
SearchesCover(e, distance, level, threatLevel) ==
    /\ LacksCover(e)
    /\ \/ e.type = "heavy" /\ distance <= 15
       \/ /\ e.type = "ranged"
          /\ ~ (level.present /\ level.wall)
          /\ 20 * distance <= 220 + threatLevel

\* candidate c comes no later than candidate d when the ring angles are
\* scanned in order and, for each angle, the radii in increasing order
ScannedNoLater(c, d) == c[1] < d[1] \/ (c[1] = d[1] /\ c[2] <= d[2])

\* C23: the cover search returns the first candidate of the scan that is
\* itself unobstructed while the point one unit toward the player is
\* obstructed, and none when no candidate is such, as on a fully open level.
C23_FirstValidCoverWins ==
    [][ \A n \in 1 .. Len(enemies) :
          LacksCover(enemies[n])
          => \A distance \in TacticDistances, level \in CoverLevels, draw \in ShortCooldown :
          ( /\ SearchesCover(enemies[n], distance, level, playerThreatLevel)
            /\ updateByTypeOf(n, distance, [ apart |-> TRUE, reached |-> FALSE ], level, draw) )
          => LET valid == { c \in (0 .. 7) \X { 3, 5, 7 } :
                              \E k \in level.shelter \ level.blocked :
                                  CoverCandidates[k] = c }
             IN  IF ~ level.present \/ valid = {}
                 THEN enemies'[n].coverPosition = NoPosition
                 ELSE \E c \in valid :
                        /\ \A d \in valid : ScannedNoLater(c, d)
                        /\ enemies'[n].coverPosition =
                             << [ center |-> enemies[n].position, base |-> "x",
                                  distance |-> c[2], turn |-> << c[1], 8 >> ] >> ]_vars

\* a hurt enemy has cached the nearest candidate of the second ring angle
C23_Witness ==
    \E n \in 1 .. Len(enemies) :
        /\ isAlive(enemies[n])
        /\ enemies[n].coverPosition # NoPosition
        /\ enemies[n].coverPosition[1].turn = << 1, 8 >>
        /\ enemies[n].coverPosition[1].distance = 3

\* enemy e, hurt enough to seek cover, has a cover cached
HoldsCover(e) ==
    /\ e.coverPosition # NoPosition
    /\ \/ e.type = "heavy" /\ 10 * e.health < 4 * MaxHealth
       \/ e.type = "ranged" /\ 2 * e.health < MaxHealth

\* the tick of enemy e heads for the cached cover: a heavy within 15 units of
\* the player, or a ranged one that sees the player within optimalRange + 3
HeadsForCover(e, distance, level, threatLevel) ==
    \/ e.type = "heavy" /\ distance <= 15
    \/ /\ e.type = "ranged"
       /\ ~ (level.present /\ level.wall)
       /\ 20 * distance <= 220 + threatLevel

\* C24: a heavy or ranged enemy's cached cover position is cleared in the tick
\* that brings the enemy to it and by every damage the enemy takes; no enemy
\* ever holds more than one cover position.
C24_CoverClearedOnArrivalAndDamage ==
    [][ \A n \in 1 .. Len(enemies) :
          /\ Len(enemies') >= n => Len(enemies'[n].coverPosition) <= 1
          /\ \A amount \in 1 .. MaxHealth :
               takeDamageOf(n, amount) => enemies'[n].coverPosition = NoPosition
          /\ HoldsCover(enemies[n])
               => \A distance \in TacticDistances, level \in CoverLevels,
                     draw \in ShortCooldown :
                    ( /\ HeadsForCover(enemies[n], distance, level, playerThreatLevel)
                      /\ updateByTypeOf(n, distance, [ apart |-> TRUE, reached |-> TRUE ], level, draw) )
                    => enemies'[n].coverPosition = NoPosition ]_vars

\* C25: an exploder detonates at most once: once the triggered flag is set it
\* stays set, and neither a tick near the player nor a further damage makes
\* the explosion take effect again.
C25_DetonatesAtMostOnce ==
    [][ \A n \in 1 .. Len(enemies) :
          /\ enemies'[n].explosionEffects <= 1
          /\ enemies[n].explosionTriggered
               => /\ enemies'[n].explosionTriggered
                  /\ enemies'[n].explosionEffects = enemies[n].explosionEffects
                  /\ enemies'[n].health = 0 ]_vars

\* a lone exploder has detonated and has been hit as often as the model
\* allows, so that hits came after the detonation
C25_Witness ==
    /\ Len(enemies) = 1
    /\ enemies[1].explosionTriggered
    /\ enemies[1].explosionEffects = 1
    /\ Len(decayTimers) = MaxTimers

\* C26: once initializeGrid has been called without a level, every findPath
\* call returns the direct path [end], whatever earlier initializeGrid calls
\* did.
C26_NoLevelMeansDirectPath ==
    (pc = "done" /\ lastLevel = "null") => result = << end >>

\* C27: with a level argument that has no checkCollision the tactics act as
\* on open ground: a ranged enemy within optimalRange + 3 takes the branch of
\* an enemy that sees the player (with no cover to go to and no cooldown
\* running it draws an evasion), the locomotion step of an enemy away from its
\* targetPosition ends where the direct step leads, and no cover is cached.
C27_NoOracleMeansOpenGround ==
    [][ \A n \in 1 .. Len(enemies) :
          \A distance \in TacticDistances, step \in AllSteps, level \in BlindLevels,
             draw \in ShortCooldown :
            updateByTypeOf(n, distance, step, level, draw)
            => LET e == enemies[n]
                   after == enemies'[n]
               IN  /\ after.lastStep \in { "none", "direct" }
                   /\ ( /\ step.apart
                        /\ e.type = "ranged" => e.evasionCooldown <= 0 )
                        => after.lastStep = "direct"
                   /\ e.coverPosition = NoPosition => after.coverPosition = NoPosition
                   /\ ( /\ e.type = "ranged"
                        /\ 20 * distance <= 220 + playerThreatLevel
                        /\ e.coverPosition = NoPosition
                        /\ e.evasionCooldown <= 0 )
                        => after.evasionCooldown = draw ]_vars

\* a ranged enemy below half health has drawn an evasion and stepped straight
\* on, with no cover cached
C27_Witness ==
    \E n \in 1 .. Len(enemies) :
        /\ enemies[n].type = "ranged"
        /\ isAlive(enemies[n])
        /\ 2 * enemies[n].health < MaxHealth
        /\ enemies[n].evasionCooldown > 0
        /\ enemies[n].lastStep = "direct"
        /\ enemies[n].coverPosition = NoPosition

\* the square of the distance between two points
SquaredDistance(a, b) ==
    (a.x - b.x) * (a.x - b.x) + (a.y - b.y) * (a.y - b.y) + (a.z - b.z) * (a.z - b.z)

\* C29: a path update runs findPath only when more than 2 seconds have passed
\* since the last plan, or no target was planned for yet, or the requested
\* target lies more than 3 units from the target of the last plan.  A call
\* that does not plan keeps the waypoint list, the planned target and the
\* time of the plan, and leaves the waypoint index to the waypoint following
\* (one further when the enemy is near the current waypoint); a call that
\* plans records the new list and target and starts the following at index 0.
C29_ReplanOnlyWhenDue ==
    [][ \A n \in 1 .. Len(enemies), target \in PathTargets, near \in BOOLEAN :
          \A plan \in PlansTo(target) :
            updatePathfindingOf(n, target, plan, near)
            => LET e == enemies[n]
                   after == enemies'[n]
               IN  /\ after.replanned
                        => /\ \/ now - e.lastPathUpdate > 2000
                              \/ e.currentTarget = NoPosition
                              \/ SquaredDistance(e.currentTarget[1], target) > 9
                           /\ after.pathWaypoints = plan
                           /\ after.currentTarget = << target >>
                           /\ after.lastPathUpdate = now
                           /\ after.currentWaypointIndex = IF near THEN 1 ELSE 0
                   /\ ~ after.replanned
                        => /\ after.pathWaypoints = e.pathWaypoints
                           /\ after.currentTarget = e.currentTarget
                           /\ after.lastPathUpdate = e.lastPathUpdate
                           /\ after.currentWaypointIndex =
                                IF near /\ Len(e.pathWaypoints) > e.currentWaypointIndex
                                THEN e.currentWaypointIndex + 1
                                ELSE e.currentWaypointIndex ]_vars

\* a call within 2 seconds of the last plan, for a target 2 units from the
\* planned one, has kept a list of three waypoints at index 1
C29_Witness ==
    \E n \in 1 .. Len(enemies) :
        /\ ~ enemies[n].replanned
        /\ Len(enemies[n].pathWaypoints) = 3
        /\ enemies[n].currentWaypointIndex = 1
        /\ enemies[n].currentTarget = << Vector3(12, 0, 10) >>
        /\ now - enemies[n].lastPathUpdate <= 2000

\* C30: a running evasion cooldown of a living enemy runs out: whenever it is
\* above zero, the tactic ticks that follow bring it to zero or below, also
\* for a ranged enemy that stays inside its standoff band.
C30_CooldownRunsOut ==
    \A n \in 1 .. 1 :
        ( /\ Len(enemies) >= n
          /\ isAlive(enemies[n])
          /\ enemies[n].evasionCooldown > 0 )
        ~> ( /\ Len(enemies) >= n
             /\ \/ ~ isAlive(enemies[n])
                \/ enemies[n].evasionCooldown <= 0 )

\* C31: a living drone that stays within dive range alternates between its
\* two phases: a tick that dives is followed, some ticks later, by a tick
\* that climbs in retreat, and a tick that climbs by one that dives.
C31_DiveAndRetreatAlternate ==
    /\ ( /\ Len(enemies) >= 1
         /\ isAlive(enemies[1])
         /\ enemies[1].flyTarget = "dive" )
       ~> ( /\ Len(enemies) >= 1
            /\ \/ ~ isAlive(enemies[1])
               \/ enemies[1].flyTarget = "climb" )
    /\ ( /\ Len(enemies) >= 1
         /\ isAlive(enemies[1])
         /\ enemies[1].flyTarget = "climb" )
       ~> ( /\ Len(enemies) >= 1
            /\ \/ ~ isAlive(enemies[1])
               \/ enemies[1].flyTarget = "dive" )

\* the roster indices in the sequence q
Members(q) == { q[i] : i \in 1 .. Len(q) }

\* C32: the clusters of a rebalance pass over the roster as it stands: every
\* living enemy that is not thrown is in exactly one cluster; each cluster
\* starts with its seed, the first such enemy of the roster that no earlier
\* cluster holds, and holds besides the seed exactly the enemies no earlier
\* cluster holds that are within 12 units of the seed.
C32_ClustersBySeedDistance ==
    LET live == { i \in 1 .. Len(enemies) :
                    enemies[i].health > 0 /\ ~ enemies[i].isThrown }
        groups == clusterEnemies(enemies, AliveFrom(enemies, 1), ClusterDistance)
        Free(k) == live \ UNION { Members(groups[j]) : j \in 1 .. k - 1 }
    IN  /\ \A i \in live :
             Cardinality({ k \in 1 .. Len(groups) : i \in Members(groups[k]) }) = 1
        /\ \A k \in 1 .. Len(groups) :
             /\ Cardinality(Members(groups[k])) = Len(groups[k])
             /\ groups[k][1] \in Free(k)
             /\ \A i \in Free(k) : groups[k][1] <= i
             /\ Members(groups[k]) =
                  { i \in Free(k) :
                      \/ i = groups[k][1]
                      \/ SquaredDistance(enemies[i].position,
                                         enemies[groups[k][1]].position) <= 4 * 12 * 12 }

\* a pass has put the first two enemies into one formation and has left out
\* a third, living and not thrown, that stands more than 12 units from the
\* first and within 12 units of the second
C32_Witness ==
    /\ Len(enemies) = 3
    /\ \E fid \in DOMAIN formations : formations[fid].members = << "enemy_a", "enemy_b" >>
    /\ enemies[3].health > 0
    /\ ~ enemies[3].isThrown
    /\ enemies[3].formationId = Null
    /\ SquaredDistance(enemies[3].position, enemies[1].position) > 4 * 12 * 12
    /\ SquaredDistance(enemies[3].position, enemies[2].position) <= 4 * 12 * 12

\* C33: when the end of the direct step is obstructed, the step taken is the
\* first of the deflections by +45, -45, +90 and -90 degrees whose end is
\* unobstructed, and no step is taken when all four are obstructed; for every
\* archetype and speed multiplier a deflected step is shorter than the direct
\* one.
C33_FirstOpenDeflectionIsTaken ==
    [][ \A n \in 1 .. Len(enemies) :
          \A distance \in TacticDistances, step \in FarSteps, level \in StepLevels,
             draw \in ShortCooldown :
            ( /\ level.present
              /\ level.ahead
              /\ updateByTypeOf(n, distance, step, level, draw) )
            => LET open == (1 .. 4) \ level.sides
                   after == enemies'[n]
               IN  /\ open = {}
                        => /\ after.lastStep = "blocked"
                           /\ after.position = enemies[n].position
                           /\ after.atCover = enemies[n].atCover
                   /\ open # {}
                        => \E k \in open :
                             /\ \A j \in open : k <= j
                             /\ after.lastStep = << "+45", "-45", "+90", "-90" >>[k]
                   /\ \A multiplier \in Multipliers :
                        /\ DeflectedStride(enemies[n].type, multiplier) > 0
                        /\ DeflectedStride(enemies[n].type, multiplier)
                             < DirectStride(enemies[n].type, multiplier) ]_vars

\* an enemy has stepped aside by -90 degrees, the last heading tried
C33_Witness ==
    \E n \in 1 .. Len(enemies) : enemies[n].lastStep = "-90"

\* C34: a path update moves the waypoint index at most one further than the
\* plan leaves it (0 after a plan, the old index otherwise), and only when the
\* enemy is within 1.5 units of the current waypoint; the index stays within
\* the length of the list; the call returns the current waypoint while the
\* list is not exhausted, and the requested target once it is.
C34_IndexFollowsWaypoints ==
    [][ \A n \in 1 .. Len(enemies), target \in PathTargets, near \in BOOLEAN :
          \A plan \in PlansTo(target) :
            updatePathfindingOf(n, target, plan, near)
            => LET after == enemies'[n]
                   index == IF after.replanned THEN 0
                            ELSE enemies[n].currentWaypointIndex
                   length == Len(after.pathWaypoints)
               IN  /\ after.currentWaypointIndex \in { index, index + 1 }
                   /\ after.currentWaypointIndex = index + 1 => near
                   /\ after.currentWaypointIndex <= length
                   /\ index < length
                        => after.moveTarget = << after.pathWaypoints[index + 1] >>
                   /\ index >= length => after.moveTarget = << target >> ]_vars

\* a call without a plan has found the list of three waypoints exhausted and
\* has returned the requested target, which is none of the waypoints
C34_Witness ==
    \E n \in 1 .. Len(enemies) :
        /\ ~ enemies[n].replanned
        /\ Len(enemies[n].pathWaypoints) = 3
        /\ enemies[n].currentWaypointIndex = 3
        /\ enemies[n].moveTarget # NoPosition
        /\ \A i \in 1 .. 3 : enemies[n].pathWaypoints[i] # enemies[n].moveTarget[1]

\* what updateAwareness may change of enemy e
AwarenessOf(e) == << e.lastPlayerSightTime, e.alertLevel, e.lastKnownPlayerPosition >>

\* what the archetype tactic may change of enemy e
TacticOf(e) ==
    << e.lastStep, e.moveTimer, e.flyTarget, e.explosionTriggered, e.explosionEffects,
       e.health, e.evasionCooldown, e.coverPosition, e.atCover >>

C36_OneSpawnPerWave == Len(enemies) <= EnemyCount(currentWave)

\* the roster holds a dead enemy
HoldsDead == \E n \in 1 .. Len(enemies) : ~ isAlive(enemies[n])

\* the roster holds enemies and none of them is alive
AllDead == enemies # << >> /\ \A n \in 1 .. Len(enemies) : ~ isAlive(enemies[n])

\* C37: an enemy that dies is eventually taken off the roster, so that once
\* all enemies of a wave are dead the transition to the next wave begins.
C37_DeadLeaveTheRoster ==
    /\ HoldsDead ~> ~ HoldsDead
    /\ AllDead ~> betweenWaves

\* the oldest pending decay timer was set before the game was started anew,
\* and so before the cleanup() of that restart
StaleTimer ==
    /\ decayTimers # << >>
    /\ Head(decayTimers) - DecayDelay < gameStartTime

\* C38: a decay timer set before cleanup() has no effect on the threat that
\* is gathered after it: the callback of a timer set before the restart of
\* the game leaves the threat level as it is.
C38_StaleDecayHasNoEffect ==
    [][ (StaleTimer /\ decayTimerFires) => playerThreatLevel' = playerThreatLevel ]_vars

\* C39: with a collision oracle at hand, a step of moveTowardsTarget ends
\* where the oracle reports no obstruction: the direct step is taken only
\* when its end is free, a deflected step only when the end of that
\* deflection is free, and the enemy stays where it is otherwise.  The enemy
\* has no step on record before the call, so the step named after it is the
\* call's own.
C39_StepsEndUnobstructed ==
    [][ \A n \in 1 .. Len(enemies) :
          \A distance \in TacticDistances, step \in AllSteps, level \in StepLevels,
             draw \in ShortCooldown :
            ( /\ level.present
              /\ enemies[n].lastStep \in { "none", "blocked" }
              /\ updateByTypeOf(n, distance, step, level, draw) )
            => LET taken == enemies'[n].lastStep
               IN  /\ taken = "direct" => ~ level.ahead
                   /\ \A k \in 1 .. 4 :
                        taken = << "+45", "-45", "+90", "-90" >>[k] => k \notin level.sides
                   /\ taken \in { "none", "blocked" }
                        => /\ enemies'[n].position = enemies[n].position
                           /\ enemies'[n].atCover = enemies[n].atCover ]_vars

\* an enemy has stepped aside by +90 degrees, past the obstructed ends of the
\* direct step and of the two deflections tried before
C39_Witness ==
    \E n \in 1 .. Len(enemies) : enemies[n].lastStep = "+90" /\ isAlive(enemies[n])

C17_AlertReachesExactlyNearbyLiving ==
    [][ \A a \in 1 .. Len(enemies), position \in AlertPoints,
           list \in SUBSET (1 .. Len(enemies)) :
          alertNearbyEnemiesFor(a, position, list)
          => /\ Len(enemies') = Len(enemies)
             /\ \A n \in 1 .. Len(enemies) :
                  enemies'[n] =
                    IF /\ n \in list
                       /\ enemies[n].id # enemies[a].id
                       /\ enemies[n].health > 0
                       /\ SquaredDistance(enemies[n].position, position)
                            <= 4 * AlertRadius * AlertRadius
                    THEN Alerted(enemies[n], enemies[a].id, position)
                    ELSE enemies[n] ]_vars

\* an agent at exactly AlertRadius from the reported position was alerted, and
\* a dead agent in range was not
C17_Witness ==
    \E n, m \in 1 .. Len(enemies) :
        /\ enemies[n].alertedBy = enemies[m].id
        /\ enemies[n].lastKnownPlayerPosition = << Vector3(30, 0, 0) >>
        /\ SquaredDistance(enemies[n].position, Vector3(30, 0, 0))
             = 4 * AlertRadius * AlertRadius
        /\ ~ isAlive(enemies[m])
        /\ enemies[m].alertedBy = Null

(***************************************************************************)
(* Game loop: properties                                                   *)
(***************************************************************************)
\* C11: when the forEach of a run of gameLoop is left and an update of that
\* run raised an exception, update was called for every enemy of the roster
\* and the next frame is requested.
C11_FaultDoesNotAbortTick ==
    [][ (tickAt # 0 /\ tickAt' = 0 /\ faulted' # {})
            => (frameRequested' /\ visited' = 1 .. Len(enemies')) ]_vars

====
